---- MODULE Spec2Model ----
(***************************************************************************)
(* The plist tool of XcodeBuildMCP (set_plist_value): key-path parsing and *)
(* escaping, value validation and normalisation, Set-failure               *)
(* classification, and the command protocol of set_plist_valueLogic        *)
(* against a PlistBuddy command executor; and the doctor tool: the probe   *)
(* adapters of doctor.deps.ts (checkBinaryAvailability, getXcodeInfo) and  *)
(* the report of runDoctor with its redaction filter.                      *)
(*                                                                         *)
(* Text is modelled as a sequence of one-character strings, so that        *)
(* trimming, lower-casing, escaping, concatenation and substring search    *)
(* are computed as the code computes them.                                 *)
(***************************************************************************)
EXTENDS Integers, Sequences, FiniteSets, TLC

VARIABLES
    params,         \* the tool's parameters: plistPath, keyPath, value, valueType, createIfMissing
    fileExists,     \* what fileSystemExecutor.existsSync(plistPath) answers
    pc,             \* the position of set_plist_valueLogic
    commands,       \* the argv of every executor call so far, in order
    outcomes,       \* what the executor did on each of those calls
    previousValue,  \* previousValue (Null until the first read succeeds)
    response,       \* the ToolResponse the logic resolved to (Null before)
    kp,             \* the key-path pipeline: input, parse result, escaped path, re-parse
    val,            \* the value pipeline: input, validation error, normalised value
    probe,          \* one doctor probe adapter call: checkBinaryAvailability or getXcodeInfo
    doc             \* one runDoctor call: request, probe results, response

vars == <<params, fileExists, pc, commands, outcomes, previousValue, response, kp,
          val, probe, doc>>

(***************************************************************************)
(* Bounds of the model.                                                    *)
(***************************************************************************)
MaxKeyLen == 5
MaxValueLen == 4

(* null / undefined where the code has a string: a tuple that is no text, since *)
(* every element of a text is a single character.                               *)
Null == <<"null">>

(* A record-valued variable that holds nothing yet. *)
Pending == [pending |-> TRUE]

(***************************************************************************)
(* Text helpers: JavaScript's String.prototype.trim, toLowerCase,          *)
(* includes, startsWith, join.                                             *)
(***************************************************************************)
Whitespace == {" ", "\t", "\n", "\r"}

UpperLetters == <<"A","B","C","D","E","F","G","H","I","J","K","L","M",
                  "N","O","P","Q","R","S","T","U","V","W","X","Y","Z">>
LowerLetters == <<"a","b","c","d","e","f","g","h","i","j","k","l","m",
                  "n","o","p","q","r","s","t","u","v","w","x","y","z">>

RECURSIVE TrimStart(_)
TrimStart(s) ==
    IF s # <<>> /\ Head(s) \in Whitespace THEN TrimStart(Tail(s)) ELSE s

RECURSIVE TrimEnd(_)
TrimEnd(s) ==
    IF s # <<>> /\ s[Len(s)] \in Whitespace THEN TrimEnd(SubSeq(s, 1, Len(s) - 1)) ELSE s

Trim(s) == TrimEnd(TrimStart(s))

LowerChar(c) ==
    IF \E i \in 1..Len(UpperLetters) : UpperLetters[i] = c
    THEN LowerLetters[CHOOSE i \in 1..Len(UpperLetters) : UpperLetters[i] = c]
    ELSE c

ToLowerCase(s) == [i \in 1..Len(s) |-> LowerChar(s[i])]

Includes(hay, needle) ==
    \E i \in 0..(Len(hay) - Len(needle)) : SubSeq(hay, i + 1, i + Len(needle)) = needle

StartsWith(s, prefix) ==
    Len(s) >= Len(prefix) /\ SubSeq(s, 1, Len(prefix)) = prefix

RECURSIVE Join(_, _)
Join(parts, sep) ==
    IF parts = <<>> THEN <<>>
    ELSE IF Len(parts) = 1 THEN parts[1]
    ELSE parts[1] \o sep \o Join(Tail(parts), sep)

RECURSIVE Strings(_, _)
Strings(alphabet, n) ==
    IF n = 0 THEN {<<>>}
    ELSE LET shorter == Strings(alphabet, n - 1)
         IN  shorter \cup {Append(s, c) : s \in {t \in shorter : Len(t) = n - 1}, c \in alphabet}

(***************************************************************************)
(* String literals of set_plist_value.ts.                                  *)
(***************************************************************************)
TxtPlistFileNotFound == <<"P","l","i","s","t"," ","f","i","l","e"," ","n","o","t"," ","f","o",
    "u","n","d">>
TxtParameterValidationFailed == <<"P","a","r","a","m","e","t","e","r"," ","v","a","l","i","d",
    "a","t","i","o","n"," ","f","a","i","l","e","d">>
TxtFailedToSet == <<"F","a","i","l","e","d"," ","t","o"," ","s","e","t"," ","p","l","i","s","t",
    " ","v","a","l","u","e">>
TxtFailedToVerify == <<"F","a","i","l","e","d"," ","t","o"," ","v","e","r","i","f","y"," ","p",
    "l","i","s","t"," ","w","r","i","t","e">>
TxtSetErrorPrefix == <<"s","e","t","_","e","r","r","o","r",":"," ">>
TxtAddErrorPrefix == <<"a","d","d","_","e","r","r","o","r",":"," ">>
TxtVerifyErrorPrefix == <<"v","e","r","i","f","y","_","e","r","r","o","r",":"," ">>
TxtUnknownError == <<"U","n","k","n","o","w","n"," ","e","r","r","o","r">>
TxtPreviousValue == <<" ","P","r","e","v","i","o","u","s"," ","v","a","l","u","e",":"," ">>
TxtEmptySegment == <<"K","e","y"," ","p","a","t","h"," ","c","o","n","t","a","i","n","s"," ",
    "a","n"," ","e","m","p","t","y"," ","s","e","g","m","e","n","t",".">>
TxtUnfinishedEscape == <<"K","e","y"," ","p","a","t","h"," ","e","n","d","s"," ","w","i","t",
    "h"," ","a","n"," ","u","n","f","i","n","i","s","h","e","d"," ","e","s","c","a","p","e"," ",
    "s","e","q","u","e","n","c","e",".">>
TxtInvalidKeyPath == <<"I","n","v","a","l","i","d"," ","k","e","y"," ","p","a","t","h",".">>
TxtInvalidParametersKeyPath == <<"I","n","v","a","l","i","d"," ","p","a","r","a","m","e","t",
    "e","r","s",":","\n","k","e","y","P","a","t","h",":"," ">>
TxtBoolError == <<"B","o","o","l","e","a","n"," ","v","a","l","u","e","s"," ","m","u","s","t",
    " ","b","e"," ","t","r","u","e"," ","o","r"," ","f","a","l","s","e",".">>
TxtIntError == <<"I","n","t","e","g","e","r"," ","v","a","l","u","e","s"," ","m","u","s","t",
    " ","u","s","e"," ","w","h","o","l","e","-","n","u","m","b","e","r"," ","f","o","r","m","a",
    "t"," ","(","f","o","r"," ","e","x","a","m","p","l","e",":"," ","-","1",","," ","0",","," ",
    "4","2",")",".">>
TxtRealError == <<"R","e","a","l"," ","v","a","l","u","e","s"," ","m","u","s","t"," ","u","s",
    "e"," ","f","i","n","i","t","e"," ","d","e","c","i","m","a","l"," ","o","r"," ","s","c","i",
    "e","n","t","i","f","i","c"," ","f","o","r","m","a","t"," ","(","f","o","r"," ","e","x","a",
    "m","p","l","e",":"," ","1",".","0",","," ","-","0",".","5",","," ","1","e","3",")",".">>
TxtNoFileExistsAt == <<"N","o"," ","f","i","l","e"," ","e","x","i","s","t","s"," ","a","t"," ",
    "'">>
TxtSetPlistKey == <<"S","e","t"," ","p","l","i","s","t"," ","k","e","y"," ","'">>
TxtIn == <<"'"," ","i","n"," ","'">>
TxtTo == <<"'"," ","t","o"," ","'">>
TxtDoesNotExist == <<"d","o","e","s"," ","n","o","t"," ","e","x","i","s","t">>
TxtUnknownEntry == <<"u","n","k","n","o","w","n"," ","e","n","t","r","y">>
TxtMissingKey == <<"m","i","s","s","i","n","g"," ","k","e","y">>
TxtTypeMismatch == <<"t","y","p","e"," ","m","i","s","m","a","t","c","h">>
TxtCannotParse == <<"c","a","n","n","o","t"," ","p","a","r","s","e">>
TxtMalformed == <<"m","a","l","f","o","r","m","e","d">>
TxtInvalid == <<"i","n","v","a","l","i","d">>
TxtTrue == <<"t","r","u","e">>
TxtFalse == <<"f","a","l","s","e">>
CmdPrint == <<"P","r","i","n","t"," ">>
CmdSet == <<"S","e","t"," ">>
CmdAdd == <<"A","d","d"," ">>
KeyPathEscapedColon == <<"A","\\",":","B",":","C">>
KeyPathNested == <<"N","S",":","A","l","l","o","w","s">>
KeyPathSimple == <<"C","o","u","n","t">>
TxtErrorColon == <<"E","r","r","o","r",":"," ">>
TxtDetails == <<"\n","D","e","t","a","i","l","s",":"," ">>
TxtQuoteDot == <<"'",".">>
TxtDot == <<".">>
PlistPathSample == <<"/","t","m","p","/","I","n","f","o",".","p","l","i","s","t">>
KeyPathEmptySegment == <<"A",":",":","B">>
KeyPathUnfinished == <<"A","\\">>
ValueTRUE == <<"T","R","U","E">>
Value13 == <<" ","1","3">>
Value1_2 == <<"1",".","2">>
ValueNewName == <<"N","e","w"," ","N","a","m","e">>
ValueInfinity == <<"I","n","f","i","n","i","t","y">>
Value1e999 == <<"1","e","9","9","9">>
OutOldName == <<"O","l","d"," ","N","a","m","e">>
Out12 == <<"1","2","\n">>
OutTrue == <<"t","r","u","e">>
OutNewName == <<"N","e","w"," ","N","a","m","e">>
ErrEntryDoesNotExist == <<"E","n","t","r","y"," ","D","o","e","s"," ","N","o","t"," ","E","x",
    "i","s","t">>
ErrTypeMismatch == <<"T","y","p","e"," ","m","i","s","m","a","t","c","h"," ","w","h","i","l",
    "e"," ","s","e","t","t","i","n","g"," ","v","a","l","u","e">>
ErrInvalidMissing == <<"I","n","v","a","l","i","d"," ","p","a","t","h",":"," ","U","n","k","n",
    "o","w","n"," ","E","n","t","r","y">>
ErrBusy == <<"F","i","l","e"," ","i","s"," ","b","u","s","y">>
OutCannotParse == <<"C","a","n","n","o","t"," ","p","a","r","s","e"," ","v","a","l","u","e",
    "\n">>
ErrBlank == <<" "," ">>
ErrAddFailed == <<"C","o","u","l","d"," ","n","o","t"," ","a","d","d"," ","e","n","t","r","y">>
ErrNotReadable == <<"F","i","l","e"," ","n","o","t"," ","r","e","a","d","a","b","l","e">>
TxtString == <<"s","t","r","i","n","g">>
TxtBool == <<"b","o","o","l">>
TxtInt == <<"i","n","t">>
TxtReal == <<"r","e","a","l">>

(* `${params.valueType}` inside the Add command. *)
ValueTypeText(valueType) ==
    IF valueType = "bool" THEN TxtBool
    ELSE IF valueType = "int" THEN TxtInt
    ELSE IF valueType = "real" THEN TxtReal
    ELSE TxtString

(***************************************************************************)
(* parseKeyPathSegments: one pass over the characters with the current     *)
(* segment and the escaping flag; a segment is trimmed when it is closed.  *)
(***************************************************************************)
(* Mutant: the segment is kept as typed. *)
untrimmedSegment(currentSegment) == currentSegment

normalizedSegment(currentSegment) == Trim(currentSegment)

RECURSIVE ParseLoop(_, _, _, _, _)
ParseLoop(keyPath, i, segments, currentSegment, escaping) ==
    IF i > Len(keyPath)
    THEN IF escaping
         THEN [ok |-> FALSE, error |-> TxtUnfinishedEscape]
         ELSE IF Len(normalizedSegment(currentSegment)) = 0
         THEN [ok |-> FALSE, error |-> TxtEmptySegment]
         ELSE [ok |-> TRUE,
               segments |-> Append(segments, normalizedSegment(currentSegment))]
    ELSE LET character == keyPath[i]
         IN  IF escaping
             THEN ParseLoop(keyPath, i + 1, segments, Append(currentSegment, character), FALSE)
             ELSE IF character = "\\"
             THEN ParseLoop(keyPath, i + 1, segments, currentSegment, TRUE)
             ELSE IF character = ":"
             THEN IF Len(normalizedSegment(currentSegment)) = 0
                  THEN [ok |-> FALSE, error |-> TxtEmptySegment]
                  ELSE ParseLoop(keyPath, i + 1,
                                 Append(segments, normalizedSegment(currentSegment)),
                                 <<>>, FALSE)
             ELSE ParseLoop(keyPath, i + 1, segments, Append(currentSegment, character), FALSE)

parseKeyPathSegments(keyPath) == ParseLoop(keyPath, 1, <<>>, <<>>, FALSE)

(* String.prototype.replaceAll(pattern, replacement) for a one-character pattern. *)
RECURSIVE ReplaceAll(_, _, _)
ReplaceAll(s, pattern, replacement) ==
    IF s = <<>> THEN <<>>
    ELSE (IF Head(s) = pattern THEN replacement ELSE <<Head(s)>>)
         \o ReplaceAll(Tail(s), pattern, replacement)

(* Mutant: colons are escaped first, so their backslashes get doubled. *)
escapeKeySegmentColonFirst(segment) ==
    ReplaceAll(ReplaceAll(segment, ":", <<"\\", ":">>), "\\", <<"\\", "\\">>)

escapeKeySegmentForPlistBuddy(segment) ==
    ReplaceAll(ReplaceAll(segment, "\\", <<"\\", "\\">>), ":", <<"\\", ":">>)

normalizeKeyPathForPlistBuddy(keyPath) ==
    LET parsed == parseKeyPathSegments(keyPath)
    IN  IF ~parsed.ok THEN parsed
        ELSE [ok |-> TRUE,
              segments |-> parsed.segments,
              plistBuddyKeyPath |->
                  <<":">> \o Join([i \in 1..Len(parsed.segments) |->
                                     escapeKeySegmentForPlistBuddy(parsed.segments[i])],
                                  <<":">>)]

(* Mutant: a backslash is copied as it is. *)
QuoteCharKeepBackslash(character) ==
    IF character = "\"" THEN <<"\\", "\"">>
    ELSE IF character = "\n" THEN <<"\\", "n">>
    ELSE IF character = "\r" THEN <<"\\", "r">>
    ELSE IF character = "\t" THEN <<"\\", "t">>
    ELSE <<character>>

(***************************************************************************)
(* quotePlistBuddyString: the value between double quotes, with backslash, *)
(* double quote, newline, carriage return and tab escaped.                 *)
(***************************************************************************)
QuoteChar(character) ==
    IF character = "\\" THEN <<"\\", "\\">>
    ELSE IF character = "\"" THEN <<"\\", "\"">>
    ELSE IF character = "\n" THEN <<"\\", "n">>
    ELSE IF character = "\r" THEN <<"\\", "r">>
    ELSE IF character = "\t" THEN <<"\\", "t">>
    ELSE <<character>>

RECURSIVE EscapeForQuotes(_)
EscapeForQuotes(value) ==
    IF value = <<>> THEN <<>> ELSE QuoteChar(Head(value)) \o EscapeForQuotes(Tail(value))

quotePlistBuddyString(value) == <<"\"">> \o EscapeForQuotes(value) \o <<"\"">>

(***************************************************************************)
(* validateValueForType: the literal grammars of bool, int and real.       *)
(***************************************************************************)
Digits == <<"0", "1", "2", "3", "4", "5", "6", "7", "8", "9">>

IsDigit(c) == \E i \in 1..Len(Digits) : Digits[i] = c

DigitValue(c) == (CHOOSE i \in 1..Len(Digits) : Digits[i] = c) - 1

AllDigits(s) == \A i \in 1..Len(s) : IsDigit(s[i])

Unsigned(s) == IF s # <<>> /\ s[1] \in {"+", "-"} THEN Tail(s) ELSE s

(* /^[+-]?\d+$/ *)
MatchesIntRegex(s) == Len(Unsigned(s)) >= 1 /\ AllDigits(Unsigned(s))

(* \d+\.\d* | \d*\.\d+ | \d+ *)
IsMantissa(m) ==
    /\ \A i \in 1..Len(m) : IsDigit(m[i]) \/ m[i] = "."
    /\ Cardinality({i \in 1..Len(m) : m[i] = "."}) <= 1
    /\ \E i \in 1..Len(m) : IsDigit(m[i])

(* [eE][+-]?\d+ *)
IsExponent(e) == Len(e) >= 2 /\ e[1] \in {"e", "E"} /\ MatchesIntRegex(Tail(e))

(* Where the exponent part of an unsigned literal starts: Len + 1 when there is none. *)
ExponentStart(body) ==
    IF \E i \in 1..Len(body) : body[i] \in {"e", "E"}
    THEN CHOOSE i \in 1..Len(body) :
             body[i] \in {"e", "E"} /\ \A j \in 1..(i - 1) : body[j] \notin {"e", "E"}
    ELSE Len(body) + 1

(* /^[+-]?(?:(?:\d+\.\d*|\d*\.\d+|\d+)(?:[eE][+-]?\d+)?)$/ *)
MatchesRealRegex(s) ==
    LET body == Unsigned(s)
        k    == ExponentStart(body)
    IN  /\ IsMantissa(SubSeq(body, 1, k - 1))
        /\ k > Len(body) \/ IsExponent(SubSeq(body, k, Len(body)))

RECURSIVE DecimalValue(_)
DecimalValue(digits) ==
    IF digits = <<>> THEN 0
    ELSE 10 * DecimalValue(SubSeq(digits, 1, Len(digits) - 1)) + DigitValue(digits[Len(digits)])

RECURSIVE StripLeadingZeros(_)
StripLeadingZeros(digits) ==
    IF digits # <<>> /\ Head(digits) = "0" THEN StripLeadingZeros(Tail(digits)) ELSE digits

(* The leading digits of 2^1024 - 2^970 = 1.797...e308: a decimal literal at or    *)
(* above it converts to Infinity.                                                  *)
OverflowDigits ==
    <<"1","7","9","7","6","9","3","1","3","4","8","6","2","3","1","5","8","0","7","9","3">>

(* digits >= OverflowDigits as decimal fractions 0.d1d2d3... *)
RECURSIVE FractionAtLeast(_, _)
FractionAtLeast(digits, limit) ==
    IF limit = <<>> THEN TRUE
    ELSE IF digits = <<>> THEN \A i \in 1..Len(limit) : limit[i] = "0"
    ELSE IF DigitValue(Head(digits)) > DigitValue(Head(limit)) THEN TRUE
    ELSE IF DigitValue(Head(digits)) < DigitValue(Head(limit)) THEN FALSE
    ELSE FractionAtLeast(Tail(digits), Tail(limit))

(* Number.isFinite(Number(s)) for a literal that matches the real grammar. *)
NumberIsFinite(s) ==
    LET body      == Unsigned(s)
        k         == ExponentStart(body)
        mantissa  == SubSeq(body, 1, k - 1)
        intDigits == IF \E i \in 1..Len(mantissa) : mantissa[i] = "."
                     THEN (CHOOSE i \in 1..Len(mantissa) : mantissa[i] = ".") - 1
                     ELSE Len(mantissa)
        allDigits == SelectSeq(mantissa, IsDigit)
        sig       == StripLeadingZeros(allDigits)
        expPart   == IF k > Len(body) THEN <<>> ELSE SubSeq(body, k + 1, Len(body))
        expSign   == IF expPart # <<>> /\ expPart[1] = "-" THEN -1 ELSE 1
        exponent  == expSign * DecimalValue(Unsigned(expPart))
        order     == intDigits - (Len(allDigits) - Len(sig)) + exponent
    IN  \/ sig = <<>>
        \/ order < 309
        \/ order = 309 /\ ~FractionAtLeast(sig, OverflowDigits)

(* Mutant: only bool is validated. *)
validateValueForTypeBoolOnly(value, valueType) ==
    IF valueType = "bool"
    THEN LET normalized == ToLowerCase(Trim(value))
         IN  IF normalized # TxtTrue /\ normalized # TxtFalse THEN TxtBoolError ELSE Null
    ELSE Null

(* Mutant: the value is matched as given, without value.trim(). *)
validateValueForTypeUntrimmed(value, valueType) ==
    IF valueType = "bool"
    THEN LET normalized == ToLowerCase(value)
         IN  IF normalized # TxtTrue /\ normalized # TxtFalse THEN TxtBoolError ELSE Null
    ELSE IF valueType = "int"
    THEN IF ~MatchesIntRegex(value) THEN TxtIntError ELSE Null
    ELSE IF valueType = "real"
    THEN IF ~MatchesRealRegex(value) \/ ~NumberIsFinite(value)
         THEN TxtRealError ELSE Null
    ELSE Null

validateValueForType(value, valueType) ==
    IF valueType = "bool"
    THEN LET normalized == ToLowerCase(Trim(value))
         IN  IF normalized # TxtTrue /\ normalized # TxtFalse THEN TxtBoolError ELSE Null
    ELSE IF valueType = "int"
    THEN IF ~MatchesIntRegex(Trim(value)) THEN TxtIntError ELSE Null
    ELSE IF valueType = "real"
    THEN IF ~MatchesRealRegex(Trim(value)) \/ ~NumberIsFinite(Trim(value))
         THEN TxtRealError ELSE Null
    ELSE Null

(***************************************************************************)
(* classifySetFailure, getCommandErrorText, normalizeDisplayedValue,       *)
(* normalizeValueForType.                                                  *)
(***************************************************************************)
(* Mutant: the non-missing markers are tested first. *)
classifySetFailureNonMissingFirst(errorOrOutput) ==
    LET normalized == ToLowerCase(errorOrOutput)
    IN  IF \/ Includes(normalized, TxtTypeMismatch)
           \/ Includes(normalized, TxtCannotParse)
           \/ Includes(normalized, TxtMalformed)
           \/ Includes(normalized, TxtInvalid)
        THEN "non-missing"
        ELSE IF \/ Includes(normalized, TxtDoesNotExist)
                \/ Includes(normalized, TxtUnknownEntry)
                \/ Includes(normalized, TxtMissingKey)
        THEN "missing-key"
        ELSE "unknown"

classifySetFailure(errorOrOutput) ==
    LET normalized == ToLowerCase(errorOrOutput)
    IN  IF \/ Includes(normalized, TxtDoesNotExist)
           \/ Includes(normalized, TxtUnknownEntry)
           \/ Includes(normalized, TxtMissingKey)
        THEN "missing-key"
        ELSE IF \/ Includes(normalized, TxtTypeMismatch)
                \/ Includes(normalized, TxtCannotParse)
                \/ Includes(normalized, TxtMalformed)
                \/ Includes(normalized, TxtInvalid)
        THEN "non-missing"
        ELSE "unknown"

getCommandErrorText(output, error) ==
    IF error # Null /\ Len(Trim(error)) > 0 THEN Trim(error)
    ELSE IF output # Null /\ Len(Trim(output)) > 0 THEN Trim(output)
    ELSE TxtUnknownError

normalizeDisplayedValue(value, valueType) ==
    IF valueType = "string" THEN value ELSE Trim(value)

normalizeValueForType(value, valueType) ==
    LET validationError == validateValueForType(value, valueType)
    IN  IF validationError # Null THEN [ok |-> FALSE, error |-> validationError]
        ELSE IF valueType = "bool"
        THEN [ok |-> TRUE, normalizedValue |-> ToLowerCase(Trim(value)),
              commandValue |-> ToLowerCase(Trim(value))]
        ELSE IF valueType = "int" \/ valueType = "real"
        THEN [ok |-> TRUE, normalizedValue |-> Trim(value), commandValue |-> Trim(value)]
        ELSE IF valueType = "string"
        THEN [ok |-> TRUE, normalizedValue |-> value,
              commandValue |-> quotePlistBuddyString(value)]
        ELSE [ok |-> TRUE, normalizedValue |-> value, commandValue |-> value]

(***************************************************************************)
(* The key-path pipeline on its own: every key path over KeyAlphabet up to *)
(* MaxKeyLen characters, and the key paths of the tests, is parsed,        *)
(* normalised for PlistBuddy, and the PlistBuddy path without its leading  *)
(* colon is parsed again.                                                  *)
(***************************************************************************)
KeyAlphabet == {"A", ":", "\\", " "}

SampleKeyPaths == {KeyPathEscapedColon, KeyPathNested, KeyPathSimple}

KeyPathInputs == Strings(KeyAlphabet, MaxKeyLen) \cup SampleKeyPaths

MainIdle ==
    /\ params = Pending
    /\ fileExists = FALSE
    /\ pc = "idle"
    /\ commands = <<>>
    /\ outcomes = <<>>
    /\ previousValue = Null
    /\ response = Pending

KpIdle == [phase |-> "idle", keyPath |-> <<>>, parsed |-> Pending,
           normalized |-> Pending, reparsed |-> Pending]

ValIdle == [phase |-> "idle", value |-> <<>>, valueType |-> "string", error |-> Null,
            normalized |-> Pending]

ProbeIdle == [pc |-> "idle", call |-> "none"]

DocIdle == [pc |-> "idle", response |-> Pending]

InitKeyPath ==
    /\ MainIdle
    /\ val = ValIdle
    /\ probe = ProbeIdle
    /\ doc = DocIdle
    /\ kp \in {[KpIdle EXCEPT !.phase = "input", !.keyPath = k] : k \in KeyPathInputs}

ParseKeyPath ==
    /\ kp.phase = "input"
    /\ kp' = [kp EXCEPT !.phase = "parsed", !.parsed = parseKeyPathSegments(kp.keyPath)]
    /\ UNCHANGED <<params, fileExists, pc, commands, outcomes, previousValue, response,
                   val, probe, doc>>

NormalizeKeyPath ==
    /\ kp.phase = "parsed"
    /\ kp' = [kp EXCEPT !.phase = "normalized",
                        !.normalized = normalizeKeyPathForPlistBuddy(kp.keyPath)]
    /\ UNCHANGED <<params, fileExists, pc, commands, outcomes, previousValue, response,
                   val, probe, doc>>

ReparseKeyPath ==
    /\ kp.phase = "normalized"
    /\ kp.normalized.ok
    /\ kp' = [kp EXCEPT !.phase = "reparsed",
                        !.reparsed = parseKeyPathSegments(Tail(kp.normalized.plistBuddyKeyPath))]
    /\ UNCHANGED <<params, fileExists, pc, commands, outcomes, previousValue, response,
                   val, probe, doc>>

NextKeyPath == ParseKeyPath \/ NormalizeKeyPath \/ ReparseKeyPath

SpecKeyPath == InitKeyPath /\ [][NextKeyPath]_vars

(***************************************************************************)
(* Responses.  createErrorResponse lives in utils/responses; the tests     *)
(* read the message and the details out of content[0].text.                *)
(***************************************************************************)
createErrorResponse(message, details) ==
    [content |-> <<[type |-> "text",
                    text |-> TxtErrorColon \o message \o TxtDetails \o details]>>,
     isError |-> TRUE]

(* What the executor can do with one command: resolve to a result or raise. *)
Result(success, output, error) ==
    [kind |-> "result", success |-> success, output |-> output, error |-> error]

Thrown == [kind |-> "throw", success |-> FALSE, output |-> <<>>, error |-> Null]

ReadOutcomes ==
    {Result(TRUE, OutOldName, Null), Result(TRUE, Out12, Null),
     Result(FALSE, <<>>, ErrEntryDoesNotExist), Thrown}

SetOutcomes ==
    {Result(TRUE, <<>>, Null),
     Result(FALSE, <<>>, ErrEntryDoesNotExist),
     Result(FALSE, <<>>, ErrTypeMismatch),
     Result(FALSE, <<>>, ErrInvalidMissing),
     Result(FALSE, <<>>, ErrBusy),
     Result(FALSE, OutCannotParse, Null),
     Result(FALSE, <<>>, ErrBlank),
     Thrown}

AddOutcomes ==
    {Result(TRUE, <<>>, Null), Result(FALSE, <<>>, ErrAddFailed), Thrown}

VerifyOutcomes ==
    {Result(TRUE, OutTrue, Null), Result(TRUE, OutNewName, Null), Result(TRUE, Out12, Null),
     Result(FALSE, <<>>, ErrNotReadable), Result(FALSE, <<>>, Null), Thrown}

(* runPlistBuddyCommand: the argv handed to the executor. *)
runPlistBuddyCommand(plistCommand, plistPath) ==
    <<"/usr/libexec/PlistBuddy", "-c", plistCommand, plistPath>>

NormalizedKeyPath == normalizeKeyPathForPlistBuddy(params.keyPath)

NormalizedValueResult == normalizeValueForType(params.value, params.valueType)

ReadCommand == CmdPrint \o NormalizedKeyPath.plistBuddyKeyPath

SetCommand ==
    CmdSet \o NormalizedKeyPath.plistBuddyKeyPath \o <<" ">> \o NormalizedValueResult.commandValue

(* Mutant: the Add command without the value type. *)
AddCommandWithoutType ==
    CmdAdd \o NormalizedKeyPath.plistBuddyKeyPath \o <<" ">> \o NormalizedValueResult.commandValue

AddCommand ==
    CmdAdd \o NormalizedKeyPath.plistBuddyKeyPath \o <<" ">> \o ValueTypeText(params.valueType)
           \o <<" ">> \o NormalizedValueResult.commandValue

Issue(plistCommand) ==
    commands' = Append(commands, runPlistBuddyCommand(plistCommand, params.plistPath))

Respond(r) == response' = r /\ pc' = "done"

SetFailureResponse(setErrorText) ==
    createErrorResponse(TxtFailedToSet, TxtSetErrorPrefix \o setErrorText)

AddFailureResponse(setErrorText, addErrorText) ==
    createErrorResponse(TxtFailedToSet,
        Join(<<TxtSetErrorPrefix \o setErrorText, TxtAddErrorPrefix \o addErrorText>>,
             <<"\n">>))

(* Mutant: a failed verification reported under the title of a failed write. *)
VerifyFailureAsSetFailure(verifyErrorText) ==
    createErrorResponse(TxtFailedToSet, TxtVerifyErrorPrefix \o verifyErrorText)

VerifyFailureResponse(verifyErrorText) ==
    createErrorResponse(TxtFailedToVerify, TxtVerifyErrorPrefix \o verifyErrorText)

(* Mutant: the checks before the first command without the file check. *)
EarlyResponseWithoutFileCheck(p, exists) ==
    LET normalizedKeyPath == normalizeKeyPathForPlistBuddy(p.keyPath)
        normalizedValueResult == normalizeValueForType(p.value, p.valueType)
    IN  IF ~normalizedKeyPath.ok
        THEN createErrorResponse(TxtParameterValidationFailed,
                 TxtInvalidParametersKeyPath \o normalizedKeyPath.error)
        ELSE IF ~normalizedValueResult.ok
        THEN createErrorResponse(TxtParameterValidationFailed, normalizedValueResult.error)
        ELSE Pending

(* The checks before the first command: the response they return, or Pending *)
(* when all of them pass.                                                    *)
EarlyResponse(p, exists) ==
    LET normalizedKeyPath == normalizeKeyPathForPlistBuddy(p.keyPath)
        normalizedValueResult == normalizeValueForType(p.value, p.valueType)
    IN  IF ~exists
        THEN createErrorResponse(TxtPlistFileNotFound,
                 TxtNoFileExistsAt \o p.plistPath \o TxtQuoteDot)
        ELSE IF ~normalizedKeyPath.ok \/ normalizedKeyPath.plistBuddyKeyPath = <<>>
        THEN createErrorResponse(TxtParameterValidationFailed,
                 TxtInvalidParametersKeyPath
                 \o (IF normalizedKeyPath.ok THEN TxtInvalidKeyPath
                     ELSE normalizedKeyPath.error))
        ELSE IF ~normalizedValueResult.ok
        THEN createErrorResponse(TxtParameterValidationFailed, normalizedValueResult.error)
        ELSE Pending

(* Mutant: every Set failure falls back to Add under createIfMissing. *)
FallsBackToAddOnAnyFailure(createIfMissing, setFailureType) == createIfMissing

(* Mutant: createIfMissing is not consulted. *)
FallsBackToAddRegardless(createIfMissing, setFailureType) == setFailureType # "non-missing"

(* Mutant: only a failure classified missing-key falls back to Add. *)
FallsBackToAddOnlyForMissingKey(createIfMissing, setFailureType) ==
    createIfMissing /\ setFailureType = "missing-key"

(* The Set failed: fall back to Add only with createIfMissing, and not for a *)
(* failure classified non-missing.                                          *)
FallsBackToAdd(createIfMissing, setFailureType) ==
    createIfMissing /\ setFailureType # "non-missing"

(* Mutant: the previous value is left out of the success text. *)
SuccessResponseWithoutPrevious(finalValue) ==
    [content |-> <<[type |-> "text",
                    text |-> TxtSetPlistKey \o params.keyPath \o TxtIn \o params.plistPath
                             \o TxtTo \o finalValue \o TxtQuoteDot]>>,
     isError |-> FALSE]

SuccessResponse(finalValue) ==
    LET previousValueText ==
            IF previousValue # Null THEN TxtPreviousValue \o previousValue \o TxtDot ELSE <<>>
    IN  [content |-> <<[type |-> "text",
                        text |-> TxtSetPlistKey \o params.keyPath \o TxtIn \o params.plistPath
                                 \o TxtTo \o finalValue \o TxtQuoteDot \o previousValueText]>>,
         isError |-> FALSE]

(***************************************************************************)
(* set_plist_valueLogic, one action per stretch of code between two awaits *)
(***************************************************************************)
(* Entry: the file check, both validations, and the first Print is issued. *)
Invoke ==
    /\ pc = "start"
    /\ IF EarlyResponse(params, fileExists) # Pending
       THEN /\ Respond(EarlyResponse(params, fileExists))
            /\ UNCHANGED commands
       ELSE /\ Issue(ReadCommand)
            /\ pc' = "readPrevious"
            /\ UNCHANGED response
    /\ UNCHANGED <<params, fileExists, outcomes, previousValue, kp, val, probe, doc>>

(* Mutant: a raise of the first Print is not caught, and Set is not issued. *)
ReadPreviousUncaught ==
    /\ pc = "readPrevious"
    /\ \E o \in ReadOutcomes :
        /\ outcomes' = Append(outcomes, o)
        /\ previousValue' = IF o.kind = "result" /\ o.success
                            THEN normalizeDisplayedValue(o.output, params.valueType)
                            ELSE previousValue
        /\ IF o.kind = "throw"
           THEN pc' = "rejected" /\ UNCHANGED commands
           ELSE Issue(SetCommand) /\ pc' = "set"
    /\ UNCHANGED <<params, fileExists, response, kp, val, probe, doc>>

(* The first Print settles (a raise is swallowed), and Set is issued. *)
ReadPrevious ==
    /\ pc = "readPrevious"
    /\ \E o \in ReadOutcomes :
        /\ outcomes' = Append(outcomes, o)
        /\ previousValue' = IF o.kind = "result" /\ o.success
                            THEN normalizeDisplayedValue(o.output, params.valueType)
                            ELSE previousValue
    /\ Issue(SetCommand)
    /\ pc' = "set"
    /\ UNCHANGED <<params, fileExists, response, kp, val, probe, doc>>

(* Set settles: verify, give up, or fall back to Add. *)
SetValue ==
    /\ pc = "set"
    /\ \E o \in SetOutcomes :
        /\ outcomes' = Append(outcomes, o)
        /\ IF o.kind = "throw"
           THEN pc' = "rejected" /\ UNCHANGED <<commands, response>>
           ELSE IF o.success
           THEN Issue(ReadCommand) /\ pc' = "verify" /\ UNCHANGED response
           ELSE LET setErrorText == getCommandErrorText(o.output, o.error)
                    setFailureType == classifySetFailure(setErrorText)
                IN  IF FallsBackToAdd(params.createIfMissing, setFailureType)
                    THEN Issue(AddCommand) /\ pc' = "add" /\ UNCHANGED response
                    ELSE Respond(SetFailureResponse(setErrorText)) /\ UNCHANGED commands
    /\ UNCHANGED <<params, fileExists, previousValue, kp, val, probe, doc>>

(* Add settles: verify, or report both errors. *)
AddValue ==
    /\ pc = "add"
    /\ \E o \in AddOutcomes :
        /\ outcomes' = Append(outcomes, o)
        /\ IF o.kind = "throw"
           THEN pc' = "rejected" /\ UNCHANGED <<commands, response>>
           ELSE IF o.success
           THEN Issue(ReadCommand) /\ pc' = "verify" /\ UNCHANGED response
           ELSE LET setResult == outcomes[2]
                    setErrorText == getCommandErrorText(setResult.output, setResult.error)
                    addErrorText == getCommandErrorText(o.output, o.error)
                IN  Respond(AddFailureResponse(setErrorText, addErrorText))
                    /\ UNCHANGED commands
    /\ UNCHANGED <<params, fileExists, previousValue, kp, val, probe, doc>>

(* The verification Print settles. *)
VerifyValue ==
    /\ pc = "verify"
    /\ \E o \in VerifyOutcomes :
        /\ outcomes' = Append(outcomes, o)
        /\ IF o.kind = "throw"
           THEN pc' = "rejected" /\ UNCHANGED response
           ELSE IF ~o.success
           THEN Respond(VerifyFailureResponse(getCommandErrorText(o.output, o.error)))
           ELSE Respond(SuccessResponse(normalizeDisplayedValue(o.output, params.valueType)))
    /\ UNCHANGED <<params, fileExists, commands, previousValue, kp, val, probe, doc>>

ValueTypes == {"string", "bool", "int", "real"}

MainKeyPaths ==
    {KeyPathSimple, KeyPathNested, KeyPathEscapedColon, KeyPathEmptySegment, KeyPathUnfinished}

MainValues == {ValueTRUE, Value13, Value1_2, ValueNewName, ValueInfinity, Value1e999}

Init ==
    /\ params \in [plistPath : {PlistPathSample}, keyPath : MainKeyPaths, value : MainValues,
                   valueType : ValueTypes, createIfMissing : BOOLEAN]
    /\ fileExists \in BOOLEAN
    /\ pc = "start"
    /\ commands = <<>>
    /\ outcomes = <<>>
    /\ previousValue = Null
    /\ response = Pending
    /\ kp = KpIdle
    /\ val = ValIdle
    /\ probe = ProbeIdle
    /\ doc = DocIdle

Next == Invoke \/ ReadPrevious \/ SetValue \/ AddValue \/ VerifyValue

Spec == Init /\ [][Next]_vars

(***************************************************************************)
(* The value pipeline on its own: validateValueForType and                 *)
(* normalizeValueForType applied to every value over ValueAlphabet up to   *)
(* MaxValueLen characters and to the values of the tests, for each of the  *)
(* four value types.                                                       *)
(***************************************************************************)
ValueAlphabet == {"1", "9", "-", ".", "e", " "}

ValueSpacedFalse == <<" ","F","a","l","s","e","\n">>
ValueYes == <<"y","e","s">>
ValuePlus1E5 == <<"+","1","E","5">>
Value9e308 == <<"9","e","3","0","8">>
ValueNaN == <<"N","a","N">>

(* The characters quotePlistBuddyString distinguishes, and a letter. *)
EscapeAlphabet == {"\\", "\"", "\n", "\r", "\t", "n"}

ValueEscaped == <<"L","i","n","e","1","\n","L","i","n","e","2","\t","\"","Q","u","o","t","e",
    "\"","\\","S","l","a","s","h">>

SampleValues ==
    {ValueTRUE, Value13, Value1_2, ValueNewName, ValueInfinity, Value1e999, OutTrue,
     ValueSpacedFalse, ValueYes, ValuePlus1E5, Value9e308, ValueNaN, ValueEscaped}

ValueInputs ==
    Strings(ValueAlphabet, MaxValueLen) \cup Strings(EscapeAlphabet, MaxValueLen) \cup SampleValues

InitValue ==
    /\ MainIdle
    /\ kp = KpIdle
    /\ probe = ProbeIdle
    /\ doc = DocIdle
    /\ val \in {[ValIdle EXCEPT !.phase = "input", !.value = v, !.valueType = t] :
                   v \in ValueInputs, t \in ValueTypes}

ValidateValue ==
    /\ val.phase = "input"
    /\ val' = [val EXCEPT !.phase = "validated",
                          !.error = validateValueForType(val.value, val.valueType)]
    /\ UNCHANGED <<params, fileExists, pc, commands, outcomes, previousValue, response,
                   kp, probe, doc>>

NormalizeValue ==
    /\ val.phase = "validated"
    /\ val' = [val EXCEPT !.phase = "normalized",
                          !.normalized = normalizeValueForType(val.value, val.valueType)]
    /\ UNCHANGED <<params, fileExists, pc, commands, outcomes, previousValue, response,
                   kp, probe, doc>>

NextValue == ValidateValue \/ NormalizeValue

SpecValue == InitValue /\ [][NextValue]_vars

(***************************************************************************)
(* doctor.deps.ts: the probe adapters checkBinaryAvailability and          *)
(* getXcodeInfo.  One action per stretch of code between two awaits of the *)
(* executor; a command the executor never settles leaves the adapter at    *)
(* its await.                                                              *)
(***************************************************************************)
TxtAvailableNoVersion == <<"A","v","a","i","l","a","b","l","e"," ","(","v","e","r","s","i","o",
    "n"," ","i","n","f","o"," ","n","o","t"," ","a","v","a","i","l","a","b","l","e",")">>

TxtXcodebuildFailed == <<"x","c","o","d","e","b","u","i","l","d"," ","c","o","m","m","a","n",
    "d"," ","f","a","i","l","e","d">>

TxtXcodeSelectFailed == <<"x","c","o","d","e","-","s","e","l","e","c","t"," ","c","o","m","m",
    "a","n","d"," ","f","a","i","l","e","d">>

TxtXcrunFindFailed == <<"x","c","r","u","n"," ","-","-","f","i","n","d"," ","c","o","m","m","a",
    "n","d"," ","f","a","i","l","e","d">>

TxtXcrunVersionFailed == <<"x","c","r","u","n"," ","-","-","v","e","r","s","i","o","n"," ","c",
    "o","m","m","a","n","d"," ","f","a","i","l","e","d">>

TxtSpawnFailed == <<"s","p","a","w","n"," ","E","N","O","E","N","T">>

TxtDashSeparator == <<" ","-"," ">>

OutAxeVersion == <<"1",".","0",".","0","\n">>

OutMiseVersion == <<"2","0","2","4",".","1",".","0"," ","m","a","c","o","s","-","a","r","m","6",
    "4","\n">>

OutBlank == <<" ","\n">>

OutWhichPath == <<"/","u","s","r","/","l","o","c","a","l","/","b","i","n","/","m","i","s","e",
    "\n">>

OutXcodebuildVersion == <<"X","c","o","d","e"," ","1","6",".","0","\n","B","u","i","l","d"," ",
    "v","e","r","s","i","o","n"," ","1","6","A","2","4","2","d","\n">>

OutXcodeSelect == <<"/","A","p","p","l","i","c","a","t","i","o","n","s","/","X","c","o","d","e",
    ".","a","p","p","/","C","o","n","t","e","n","t","s","/","D","e","v","e","l","o","p","e","r",
    "\n">>

OutXcrunFind == <<"/","u","s","r","/","b","i","n","/","x","c","o","d","e","b","u","i","l","d",
    "\n">>

OutXcrunVersion == <<"x","c","r","u","n"," ","v","e","r","s","i","o","n"," ","7","0",".","\n">>

LitXcodeVersion == <<"X","c","o","d","e"," ","1","6",".","0"," ","-"," ","B","u","i","l","d",
    " ","v","e","r","s","i","o","n"," ","1","6","A","2","4","2","d">>

ThrownWith(message) ==
    [kind |-> "throw", success |-> FALSE, output |-> <<>>, error |-> message]

AxePath == "/opt/homebrew/bin/axe"

(* Names an object literal inherits, so that `name in versionCommands` holds. *)
ObjectPrototypeKeys == {"constructor"}

Binaries == {"axe", "xcodemake", "mise", "git"} \cup ObjectPrototypeKeys

AxeBinaries == {[found |-> FALSE], [found |-> TRUE, path |-> AxePath]}

Unavailable == [available |-> FALSE, version |-> Null]

(* version ?? 'Available (version info not available)' *)
AvailableWith(version) ==
    [available |-> TRUE,
     version |-> IF version = Null THEN TxtAvailableNoVersion ELSE version]

(* if (res.success && res.output) version = res.output.trim() *)
VersionOf(o) ==
    IF o.kind = "result" /\ o.success /\ o.output # <<>> THEN Trim(o.output) ELSE Null

(* Mutant: the install-capable check of utils/xcodemake. *)
xcodemakeInstallingProbe == "isXcodemakeAvailable"

xcodemakeProbe == "isXcodemakeBinaryAvailable"

InVersionCommands(binary) == binary = "mise" \/ binary \in ObjectPrototypeKeys

(* versionCommands[binary]!.split(' ') raises a TypeError for an inherited *)
(* name, inside the try block.                                             *)
VersionCommandSplits(binary) == binary = "mise"

VersionCommand(binary) == <<"mise", "--version">>

Step(next, argv, result) == [next |-> next, argv |-> argv, result |-> result]

(* The synchronous start of checkBinaryAvailability, up to its first await. *)
StartOfCheck(binary, axeBinary, xcodemakeBinaryAvailable) ==
    IF binary = "axe"
    THEN IF ~axeBinary.found
         THEN Step("done", <<>>, Unavailable)
         ELSE Step("axeVersion", <<axeBinary.path, "--version">>, Pending)
    ELSE IF binary = "xcodemake"
    THEN Step("done", <<>>,
              [available |-> xcodemakeBinaryAvailable,
               version |-> IF xcodemakeBinaryAvailable THEN TxtAvailableNoVersion ELSE Null])
    ELSE Step("which", <<"which", binary>>, Pending)

FeatureCallsOfCheck(binary) ==
    IF binary = "axe" THEN <<"resolveAxeBinary">>
    ELSE IF binary = "xcodemake" THEN <<xcodemakeProbe>>
    ELSE <<>>

AfterAxeVersion(o) == Step("done", <<>>, AvailableWith(VersionOf(o)))

(* Mutant: an exception of the 'which' call is not caught. *)
AfterWhichUncaught(binary, o) ==
    IF o.kind = "throw" THEN Step("rejected", <<>>, Pending)
    ELSE IF ~o.success THEN Step("done", <<>>, Unavailable)
    ELSE IF InVersionCommands(binary) /\ VersionCommandSplits(binary)
    THEN Step("version", VersionCommand(binary), Pending)
    ELSE Step("done", <<>>, AvailableWith(Null))

AfterWhich(binary, o) ==
    IF o.kind = "throw" \/ ~o.success THEN Step("done", <<>>, Unavailable)
    ELSE IF InVersionCommands(binary) /\ VersionCommandSplits(binary)
    THEN Step("version", VersionCommand(binary), Pending)
    ELSE Step("done", <<>>, AvailableWith(Null))

AfterVersion(o) == Step("done", <<>>, AvailableWith(VersionOf(o)))

(* getXcodeInfo: its four commands and the message raised when one fails. *)
XcodeCommands ==
    << <<"xcodebuild", "-version">>, <<"xcode-select", "-p">>,
       <<"xcrun", "--find", "xcodebuild">>, <<"xcrun", "--version">> >>

XcodeFailureMessages ==
    <<TxtXcodebuildFailed, TxtXcodeSelectFailed, TxtXcrunFindFailed, TxtXcrunVersionFailed>>

RECURSIVE SplitText(_, _)
SplitText(s, separator) ==
    IF \E i \in 1..Len(s) : s[i] = separator
    THEN LET i == CHOOSE j \in 1..Len(s) : s[j] = separator /\ \A k \in 1..(j - 1) : s[k] # separator
         IN  <<SubSeq(s, 1, i - 1)>> \o SplitText(SubSeq(s, i + 1, Len(s)), separator)
    ELSE <<s>>

(* xcodebuild.output.trim().split('\n').slice(0, 2).join(' - ') *)
XcodeVersionOf(output) ==
    LET parts == SplitText(Trim(output), "\n")
    IN  Join(SubSeq(parts, 1, IF Len(parts) < 2 THEN Len(parts) ELSE 2), TxtDashSeparator)

XcodeInfoOf(outputs) ==
    [version |-> XcodeVersionOf(outputs[1]), path |-> Trim(outputs[2]),
     selectedXcode |-> Trim(outputs[3]), xcrunVersion |-> Trim(outputs[4])]

(* Mutant: a raise of the executor is not caught. *)
AfterXcodeCommandUncaught(step, outputs, o) ==
    IF o.kind = "throw" THEN Step("rejected", <<>>, Pending)
    ELSE IF ~o.success THEN Step("done", <<>>, [error |-> XcodeFailureMessages[step]])
    ELSE IF step < Len(XcodeCommands) THEN Step("xcode", XcodeCommands[step + 1], Pending)
    ELSE Step("done", <<>>, XcodeInfoOf(Append(outputs, o.output)))

(* What getXcodeInfo does once command number `step` settled with o. *)
AfterXcodeCommand(step, outputs, o) ==
    IF o.kind = "throw" THEN Step("done", <<>>, [error |-> o.error])
    ELSE IF ~o.success THEN Step("done", <<>>, [error |-> XcodeFailureMessages[step]])
    ELSE IF step < Len(XcodeCommands) THEN Step("xcode", XcodeCommands[step + 1], Pending)
    ELSE Step("done", <<>>, XcodeInfoOf(Append(outputs, o.output)))

VersionOutcomes ==
    {Result(TRUE, OutAxeVersion, Null), Result(TRUE, OutMiseVersion, Null),
     Result(TRUE, <<>>, Null), Result(TRUE, OutBlank, Null),
     Result(FALSE, <<>>, TxtSpawnFailed), ThrownWith(TxtSpawnFailed)}

WhichOutcomes ==
    {Result(TRUE, OutWhichPath, Null), Result(FALSE, <<>>, Null), ThrownWith(TxtSpawnFailed)}

XcodeOutputs == <<OutXcodebuildVersion, OutXcodeSelect, OutXcrunFind, OutXcrunVersion>>

XcodeOutcomes(step) ==
    {Result(TRUE, XcodeOutputs[step], Null), Result(TRUE, <<>>, Null),
     Result(FALSE, <<>>, TxtSpawnFailed), ThrownWith(TxtSpawnFailed)}

(***************************************************************************)
(* doctor.deps.ts: getEnvironmentVariables.  process.env is a function     *)
(* from the names that are set to their values; the snapshot is a function *)
(* from its keys to a value or undefined.                                  *)
(***************************************************************************)
EnvNames ==
    [INCREMENTAL_BUILDS_ENABLED |-> <<"I","N","C","R","E","M","E","N","T","A","L","_","B",
         "U","I","L","D","S","_","E","N","A","B","L","E","D">>,
     PATH |-> <<"P","A","T","H">>,
     DEVELOPER_DIR |-> <<"D","E","V","E","L","O","P","E","R","_","D","I","R">>,
     HOME |-> <<"H","O","M","E">>,
     USER |-> <<"U","S","E","R">>,
     TMPDIR |-> <<"T","M","P","D","I","R">>,
     NODE_ENV |-> <<"N","O","D","E","_","E","N","V">>,
     SENTRY_DISABLED |-> <<"S","E","N","T","R","Y","_","D","I","S","A","B","L","E","D">>,
     AXE_PATH |-> <<"A","X","E","_","P","A","T","H">>,
     XBMCP_LAUNCH_JSON_WAIT_MS |-> <<"X","B","M","C","P","_","L","A","U","N","C","H","_",
         "J","S","O","N","_","W","A","I","T","_","M","S">>,
     XCODEBUILDMCP_DEBUGGER_BACKEND |-> <<"X","C","O","D","E","B","U","I","L","D","M","C",
         "P","_","D","E","B","U","G","G","E","R","_","B","A","C","K","E","N","D">>,
     XCODEBUILDMCP_UI_DEBUGGER_GUARD_MODE |-> <<"X","C","O","D","E","B","U","I","L","D","M",
         "C","P","_","U","I","_","D","E","B","U","G","G","E","R","_","G","U","A","R","D",
         "_","M","O","D","E">>,
     prefix |-> <<"X","C","O","D","E","B","U","I","L","D","M","C","P","_">>,
     XCODEBUILDMCP_DEBUG |-> <<"X","C","O","D","E","B","U","I","L","D","M","C","P","_","D",
         "E","B","U","G">>,
     SHELL |-> <<"S","H","E","L","L">>,
     XCODEBUILDMCP |-> <<"X","C","O","D","E","B","U","I","L","D","M","C","P">>,
     MY_XCODEBUILDMCP_KEY |-> <<"M","Y","_","X","C","O","D","E","B","U","I","L","D","M","C",
         "P","_","K","E","Y">>,
     lowercase |-> <<"x","c","o","d","e","b","u","i","l","d","m","c","p","_","d","e","b",
         "u","g">>]

relevantVars ==
    <<EnvNames.INCREMENTAL_BUILDS_ENABLED, EnvNames.PATH, EnvNames.DEVELOPER_DIR,
      EnvNames.HOME, EnvNames.USER, EnvNames.TMPDIR,
      EnvNames.NODE_ENV, EnvNames.SENTRY_DISABLED, EnvNames.AXE_PATH,
      EnvNames.XBMCP_LAUNCH_JSON_WAIT_MS, EnvNames.XCODEBUILDMCP_DEBUGGER_BACKEND, EnvNames.XCODEBUILDMCP_UI_DEBUGGER_GUARD_MODE>>

(* Mutant: a name that contains the prefix anywhere is taken. *)
hasEnvPrefixAnywhere(key) == Includes(key, EnvNames.prefix)

(* key.startsWith('XCODEBUILDMCP_') *)
hasEnvPrefix(key) == StartsWith(key, EnvNames.prefix)

getEnvironmentVariables(processEnv) ==
    LET valueOf(name) == IF name \in DOMAIN processEnv THEN processEnv[name] ELSE Null
        relevant == {relevantVars[i] : i \in 1..Len(relevantVars)}
        prefixed == {key \in DOMAIN processEnv : hasEnvPrefix(key)}
    IN  [name \in relevant \cup prefixed |-> valueOf(name)]

(* The names the process may have set, and what it has set them to. *)
ProcessVariableNames ==
    {EnvNames.PATH, EnvNames.AXE_PATH, EnvNames.XCODEBUILDMCP_DEBUGGER_BACKEND,
     EnvNames.XCODEBUILDMCP_DEBUG, EnvNames.prefix, EnvNames.SHELL, EnvNames.XCODEBUILDMCP,
     EnvNames.MY_XCODEBUILDMCP_KEY, EnvNames.lowercase}

ProcessEnvironments == {[name \in set |-> <<"1">>] : set \in SUBSET ProcessVariableNames}

(***************************************************************************)
(* doctor.deps.ts: getManifestToolInfo.  loadManifest either raises or     *)
(* returns the workflows, a map from workflow id to its list of tool ids.  *)
(***************************************************************************)
MaxTools == 2

ManifestText ==
    [failedToLoad |-> <<"F","a","i","l","e","d"," ","t","o"," ","l","o","a","d"," ","m","a",
         "n","i","f","e","s","t",":"," ">>,
     unknownError |-> <<"U","n","k","n","o","w","n"," ","e","r","r","o","r">>,
     message |-> <<"E","N","O","E","N","T",":"," ","m","a","n","i","f","e","s","t","s","/",
         "w","o","r","k","f","l","o","w","s">>]

WorkflowIds == {"simulator", "device", "doctor"}

ToolIds == {"build_sim", "list_devices", "doctor"}

RECURSIVE ToolLists(_)
ToolLists(n) ==
    IF n = 0 THEN {<<>>}
    ELSE LET shorter == ToolLists(n - 1)
         IN  shorter \cup {Append(s, t) : s \in {l \in shorter : Len(l) = n - 1}, t \in ToolIds}

LoadedManifests ==
    {[kind |-> "result", workflows |-> workflows] :
        workflows \in UNION {[ids -> [tools : ToolLists(MaxTools)]] : ids \in SUBSET WorkflowIds}}

(* loadManifest raises an Error with a message, or something that is no Error. *)
LoadFailures ==
    {[kind |-> "throw", isError |-> TRUE, message |-> ManifestText.message],
     [kind |-> "throw", isError |-> FALSE, message |-> Null]}

RECURSIVE SumOver(_, _)
SumOver(counts, keys) ==
    IF keys = {} THEN 0
    ELSE LET key == CHOOSE k \in keys : TRUE
         IN  counts[key] + SumOver(counts, keys \ {key})

(* Mutant: every listing of a tool is counted. *)
getManifestToolInfoCountingListings(loaded) ==
    IF loaded.kind = "throw"
    THEN [error |-> ManifestText.failedToLoad
                    \o (IF loaded.isError THEN loaded.message ELSE ManifestText.unknownError)]
    ELSE LET toolsByWorkflow == [w \in DOMAIN loaded.workflows |-> Len(loaded.workflows[w].tools)]
         IN  [totalTools |-> SumOver(toolsByWorkflow, DOMAIN toolsByWorkflow),
              workflowCount |-> Cardinality(DOMAIN loaded.workflows),
              toolsByWorkflow |-> toolsByWorkflow]

getManifestToolInfo(loaded) ==
    IF loaded.kind = "throw"
    THEN [error |-> ManifestText.failedToLoad
                    \o (IF loaded.isError THEN loaded.message ELSE ManifestText.unknownError)]
    ELSE LET workflows == loaded.workflows
             toolsByWorkflow == [w \in DOMAIN workflows |-> Len(workflows[w].tools)]
             uniqueTools == UNION {{workflows[w].tools[i] : i \in 1..Len(workflows[w].tools)} :
                                      w \in DOMAIN workflows}
         IN  [totalTools |-> Cardinality(uniqueTools),
              workflowCount |-> Cardinality(DOMAIN workflows),
              toolsByWorkflow |-> toolsByWorkflow]

ProbeStart(call, binary, axeBinary, xcodemakeBinaryAvailable) ==
    [pc |-> "start", call |-> call, binary |-> binary, axeBinary |-> axeBinary,
     xcodemakeBinaryAvailable |-> xcodemakeBinaryAvailable, commands |-> <<>>,
     outcomes |-> <<>>, featureCalls |-> <<>>, settles |-> TRUE, outputs |-> <<>>,
     input |-> Pending, result |-> Pending]

(* An adapter that takes its input from the process or the manifest loader. *)
ProbeStartWith(call, input) ==
    [ProbeStart(call, "none", [found |-> FALSE], FALSE) EXCEPT !.input = input]

InitProbe ==
    /\ MainIdle
    /\ kp = KpIdle
    /\ val = ValIdle
    /\ doc = DocIdle
    /\ probe \in {ProbeStart("checkBinaryAvailability", b, a, x) :
                     b \in Binaries, a \in AxeBinaries, x \in BOOLEAN}
                 \cup {ProbeStart("getXcodeInfo", "none", [found |-> FALSE], FALSE)}
                 \cup {ProbeStartWith("getEnvironmentVariables", e) : e \in ProcessEnvironments}
                 \cup {ProbeStartWith("getManifestToolInfo", m) :
                           m \in LoadedManifests \cup LoadFailures}

(* The adapter moves on by `step`; the executor may never settle a command *)
(* the step issues.                                                        *)
Take(p, step) ==
    IF step.next \in {"done", "rejected"}
    THEN {[p EXCEPT !.pc = step.next, !.result = step.result]}
    ELSE {[p EXCEPT !.pc = step.next, !.commands = Append(@, step.argv), !.settles = s] :
             s \in BOOLEAN}

OthersUnchangedByProbe ==
    UNCHANGED <<params, fileExists, pc, commands, outcomes, previousValue, response,
                kp, val, doc>>

CheckBinaryAvailability ==
    /\ probe.pc = "start"
    /\ probe.call = "checkBinaryAvailability"
    /\ probe' \in Take([probe EXCEPT !.featureCalls = FeatureCallsOfCheck(probe.binary)],
                       StartOfCheck(probe.binary, probe.axeBinary,
                                    probe.xcodemakeBinaryAvailable))
    /\ OthersUnchangedByProbe

AxeVersionSettles ==
    /\ probe.pc = "axeVersion"
    /\ probe.settles
    /\ \E o \in VersionOutcomes :
          probe' \in Take([probe EXCEPT !.outcomes = Append(@, o)], AfterAxeVersion(o))
    /\ OthersUnchangedByProbe

WhichSettles ==
    /\ probe.pc = "which"
    /\ probe.settles
    /\ \E o \in WhichOutcomes :
          probe' \in Take([probe EXCEPT !.outcomes = Append(@, o)],
                          AfterWhich(probe.binary, o))
    /\ OthersUnchangedByProbe

VersionSettles ==
    /\ probe.pc = "version"
    /\ probe.settles
    /\ \E o \in VersionOutcomes :
          probe' \in Take([probe EXCEPT !.outcomes = Append(@, o)], AfterVersion(o))
    /\ OthersUnchangedByProbe

GetXcodeInfo ==
    /\ probe.pc = "start"
    /\ probe.call = "getXcodeInfo"
    /\ probe' \in Take(probe, Step("xcode", XcodeCommands[1], Pending))
    /\ OthersUnchangedByProbe

XcodeCommandSettles ==
    /\ probe.pc = "xcode"
    /\ probe.settles
    /\ \E o \in XcodeOutcomes(Len(probe.commands)) :
          probe' \in Take([probe EXCEPT !.outcomes = Append(@, o),
                                        !.outputs = IF o.kind = "result" /\ o.success
                                                    THEN Append(@, o.output) ELSE @],
                          AfterXcodeCommand(Len(probe.commands), probe.outputs, o))
    /\ OthersUnchangedByProbe

GetEnvironmentVariables ==
    /\ probe.pc = "start"
    /\ probe.call = "getEnvironmentVariables"
    /\ probe' = [probe EXCEPT !.pc = "done", !.result = getEnvironmentVariables(probe.input)]
    /\ OthersUnchangedByProbe

GetManifestToolInfo ==
    /\ probe.pc = "start"
    /\ probe.call = "getManifestToolInfo"
    /\ probe' = [probe EXCEPT !.pc = "done", !.result = getManifestToolInfo(probe.input)]
    /\ OthersUnchangedByProbe

NextProbe ==
    \/ CheckBinaryAvailability
    \/ AxeVersionSettles
    \/ WhichSettles
    \/ VersionSettles
    \/ GetXcodeInfo
    \/ XcodeCommandSettles
    \/ GetEnvironmentVariables
    \/ GetManifestToolInfo

SpecProbe == InitProbe /\ [][NextProbe]_vars

(***************************************************************************)
(* runDoctor (doctor.ts): the report of the doctor tool.  Its probes are   *)
(* the injected DoctorDependencies; the report is built from their         *)
(* results, passed through the redaction filter and rendered as one text.  *)
(* The text is a sequence of lines, each a label followed by a value.      *)
(***************************************************************************)
DoctorText ==
    [modeRedacted |-> <<"O","u","t","p","u","t"," ","M","o","d","e",":"," ","R","e","d","a",
         "c","t","e","d"," ","(","d","e","f","a","u","l","t",")">>,
     modePrefix |-> <<"O","u","t","p","u","t"," ","M","o","d","e",":"," ">>,
     modeNonRedacted |-> <<" ","N","o","n","-","r","e","d","a","c","t","e","d"," ","(","o",
         "p","t","-","i","n",")">>,
     redacted |-> <<"<","r","e","d","a","c","t","e","d",">">>,
     usersRedacted |-> <<"/","U","s","e","r","s","/","<","r","e","d","a","c","t","e","d",
         ">">>,
     manifestHeading |-> <<"#","#","#"," ","M","a","n","i","f","e","s","t"," ","T","o","o",
         "l"," ","I","n","v","e","n","t","o","r","y">>,
     totalTools |-> <<"T","o","t","a","l"," ","U","n","i","q","u","e"," ","T","o","o","l",
         "s",":"," ">>,
     workflowCount |-> <<"W","o","r","k","f","l","o","w"," ","C","o","u","n","t",":"," ">>,
     runtimeHeading |-> <<"#","#","#"," ","R","u","n","t","i","m","e"," ","T","o","o","l",
         " ","R","e","g","i","s","t","r","a","t","i","o","n">>,
     registeredTools |-> <<"R","e","g","i","s","t","e","r","e","d"," ","T","o","o","l","s",
         ":"," ">>,
     runtimeUnavailable |-> <<"U","n","a","v","a","i","l","a","b","l","e",":"," ","t","h",
         "e"," ","t","o","o","l"," ","r","e","g","i","s","t","r","y"," ","w","a","s"," ",
         "n","o","t"," ","i","n","i","t","i","a","l","i","z","e","d"," ","i","n"," ","t",
         "h","i","s"," ","p","r","o","c","e","s","s">>,
     dependenciesHeading |-> <<"#","#","#"," ","D","e","p","e","n","d","e","n","c","i","e",
         "s">>,
     axe |-> <<"a","x","e",":"," ">>,
     notFound |-> <<"N","o","t"," ","f","o","u","n","d">>,
     featuresHeading |-> <<"#","#","#"," ","F","e","a","t","u","r","e","s">>,
     videoCapture |-> <<"V","i","d","e","o"," ","C","a","p","t","u","r","e",":"," ">>,
     supported |-> <<"S","u","p","p","o","r","t","e","d">>,
     unavailableAxe |-> <<"U","n","a","v","a","i","l","a","b","l","e"," ","(","A","X","e",
         " ">>,
     presentRequired |-> <<" ","p","r","e","s","e","n","t",","," ","A","X","e"," ",">","=",
         " ","1",".","1",".","0"," ","r","e","q","u","i","r","e","d",")">>,
     axeMissing |-> <<"U","n","a","v","a","i","l","a","b","l","e"," ","(","A","X","e"," ",
         "n","o","t"," ","f","o","u","n","d",")">>,
     environmentHeading |-> <<"#","#","#"," ","E","n","v","i","r","o","n","m","e","n","t",
         " ","V","a","r","i","a","b","l","e","s">>,
     notSet |-> <<"(","n","o","t"," ","s","e","t",")">>,
     systemHeading |-> <<"#","#","#"," ","S","y","s","t","e","m"," ","I","n","f","o","r",
         "m","a","t","i","o","n">>,
     username |-> <<"u","s","e","r","n","a","m","e",":"," ">>,
     homedir |-> <<"h","o","m","e","d","i","r",":"," ">>,
     hostname |-> <<"h","o","s","t","n","a","m","e",":"," ">>,
     cwd |-> <<"c","w","d",":"," ">>,
     argv |-> <<"a","r","g","v",":"," ">>,
     xcodeHeading |-> <<"#","#","#"," ","X","c","o","d","e"," ","I","n","f","o","r","m","a",
         "t","i","o","n">>,
     xcodeVersion |-> <<"v","e","r","s","i","o","n",":"," ">>,
     error |-> <<"E","r","r","o","r",":"," ">>,
     colon |-> <<":"," ">>,
     newline |-> <<"\n">>]

Fixture ==
    [username |-> <<"a","m","y">>,
     homedir |-> <<"/","U","s","e","r","s","/","a","m","y">>,
     projectDir |-> <<"/","U","s","e","r","s","/","a","m","y","/","D","e","v","/","A","p",
         "p">>,
     projectName |-> <<"A","p","p">>,
     hostname |-> <<"h","o","s","t">>,
     pathPlain |-> <<"/","u","s","r","/","l","o","c","a","l","/","b","i","n",":","/","u",
         "s","r","/","b","i","n">>,
     pathUnderHome |-> <<"/","U","s","e","r","s","/","a","m","y","/","D","e","v","/","A",
         "p","p","/","b","i","n",":","/","u","s","r","/","b","i","n">>,
     pathEmbedding |-> <<"/","o","p","t","/","a","m","y","x","/","b","i","n",":","/","u",
         "s","r","/","b","i","n">>,
     argvPlain |-> <<"n","o","d","e"," ","b","u","i","l","d","/","i","n","d","e","x",".",
         "j","s">>,
     argvUnderHome |-> <<"n","o","d","e"," ","/","U","s","e","r","s","/","a","m","y","/",
         "D","e","v","/","A","p","p","/","b","u","i","l","d","/","d","o","c","t","o","r",
         "-","c","l","i",".","j","s"," ","-","-","t","o","k","e","n","=","a","b","c","1",
         "2","3">>,
     root |-> <<"/">>,
     secret |-> <<"s","3","c","r","3","t">>,
     axeVersion |-> <<"1",".","0",".","0">>,
     manifestError |-> <<"M","a","n","i","f","e","s","t"," ","l","o","a","d","i","n","g",
         " ","f","a","i","l","e","d">>,
     xcodeError |-> <<"X","c","o","d","e"," ","n","o","t"," ","f","o","u","n","d">>,
     xcodeVersion |-> <<"X","c","o","d","e"," ","1","5",".","0"," ","-"," ","B","u","i","l",
         "d"," ","v","e","r","s","i","o","n"," ","1","5","A","2","4","0","d">>,
     PATH |-> <<"P","A","T","H">>,
     USER |-> <<"U","S","E","R">>,
     HOME |-> <<"H","O","M","E">>,
     API_KEY |-> <<"X","C","O","D","E","B","U","I","L","D","M","C","P","_","A","P","I","_",
         "K","E","Y">>]

(* U+26A0 U+FE0F, the warning sign of the non-redacted banner. *)
WarningSign == <<"U+26A0", "U+FE0F">>

SecretMarkers ==
    {<<"k","e","y">>, <<"t","o","k","e","n">>, <<"s","e","c","r","e","t">>,
     <<"p","a","s","s","w","o","r","d">>}

WordCharacters ==
    {UpperLetters[i] : i \in 1..Len(UpperLetters)} \cup {LowerLetters[i] : i \in 1..Len(LowerLetters)}
    \cup {Digits[i] : i \in 1..Len(Digits)} \cup {"_"}

PathEnds == Whitespace \cup {":"}

StartsAt(text, i, word) ==
    i + Len(word) - 1 <= Len(text) /\ SubSeq(text, i, i + Len(word) - 1) = word

(* A path under the home directory, up to the end of the path, becomes the *)
(* placeholder directory.                                                  *)
RECURSIVE redactHomePaths(_, _, _)
redactHomePaths(text, homedir, i) ==
    IF i > Len(text) THEN <<>>
    ELSE IF /\ StartsAt(text, i, homedir)
            /\ \/ i + Len(homedir) > Len(text)
               \/ text[i + Len(homedir)] \in PathEnds \cup {"/"}
    THEN LET ends == {j \in i..Len(text) : text[j] \in PathEnds}
             end  == IF ends = {} THEN Len(text) + 1
                     ELSE CHOOSE j \in ends : \A k \in ends : j <= k
         IN  DoctorText.usersRedacted \o redactHomePaths(text, homedir, end)
    ELSE <<text[i]>> \o redactHomePaths(text, homedir, i + 1)

(* The term is replaced where it is a whole path segment or a standalone token. *)
RECURSIVE redactTerm(_, _, _)
redactTerm(text, term, i) ==
    IF i > Len(text) THEN <<>>
    ELSE IF /\ StartsAt(text, i, term)
            /\ (i = 1 \/ text[i - 1] \notin WordCharacters)
            /\ (i + Len(term) > Len(text) \/ text[i + Len(term)] \notin WordCharacters)
    THEN DoctorText.redacted \o redactTerm(text, term, i + Len(term))
    ELSE <<text[i]>> \o redactTerm(text, term, i + 1)

redactText(text, system) ==
    redactTerm(redactHomePaths(text, system.homedir, 1), system.username, 1)

isRedacted(nonRedacted) == nonRedacted # "true"

(* Mutant: no variable name is secret-like. *)
isSecretNameNever(name) == FALSE

isSecretName(name) == \E marker \in SecretMarkers : Includes(ToLowerCase(name), marker)

(* A free-text or path-bearing value as the report shows it. *)
shown(value, redacted, system) == IF redacted THEN redactText(value, system) ELSE value

shownVariable(variable, redacted, system) ==
    IF variable.value = Null THEN DoctorText.notSet
    ELSE IF isSecretName(variable.name) THEN DoctorText.redacted
    ELSE shown(variable.value, redacted, system)

CountText(n) == <<Digits[n + 1]>>

(* Mutant: the banner of the default mode, whatever the mode. *)
modeBannerAlwaysRedacted(redacted) == DoctorText.modeRedacted

modeBanner(redacted) ==
    IF redacted THEN DoctorText.modeRedacted
    ELSE DoctorText.modePrefix \o WarningSign \o DoctorText.modeNonRedacted

manifestLines(manifest, redacted, system) ==
    <<DoctorText.manifestHeading>>
    \o (IF manifest.ok
        THEN <<DoctorText.totalTools \o CountText(manifest.totalTools),
               DoctorText.workflowCount \o CountText(manifest.workflowCount)>>
        ELSE <<DoctorText.error \o shown(manifest.error, redacted, system)>>)

(* Mutant: a registry that was never initialized is shown as zero tools. *)
runtimeLinesZeroWhenMissing(runtime) ==
    <<DoctorText.runtimeHeading,
      DoctorText.registeredTools
      \o CountText(IF runtime.initialized THEN runtime.registeredToolCount ELSE 0)>>

runtimeLines(runtime) ==
    <<DoctorText.runtimeHeading,
      IF runtime.initialized
      THEN DoctorText.registeredTools \o CountText(runtime.registeredToolCount)
      ELSE DoctorText.runtimeUnavailable>>

dependencyLines(axe, redacted, system) ==
    <<DoctorText.dependenciesHeading,
      DoctorText.axe \o (IF axe.available THEN shown(axe.version, redacted, system)
                         ELSE DoctorText.notFound)>>

(* Mutant: the feature is supported as soon as AXe is there. *)
videoCaptureSupportedIfPresent(axe, axeAtLeastVersion, redacted, system) ==
    IF axe.available THEN DoctorText.supported ELSE DoctorText.axeMissing

videoCapture(axe, axeAtLeastVersion, redacted, system) ==
    IF ~axe.available THEN DoctorText.axeMissing
    ELSE IF axeAtLeastVersion THEN DoctorText.supported
    ELSE DoctorText.unavailableAxe \o shown(axe.version, redacted, system)
         \o DoctorText.presentRequired

featureLines(axe, axeAtLeastVersion, redacted, system) ==
    <<DoctorText.featuresHeading,
      DoctorText.videoCapture \o videoCapture(axe, axeAtLeastVersion, redacted, system)>>

environmentLines(env, redacted, system) ==
    <<DoctorText.environmentHeading>>
    \o [i \in 1..Len(env) |->
           env[i].name \o DoctorText.colon \o shownVariable(env[i], redacted, system)]

systemLines(system, node, redacted) ==
    <<DoctorText.systemHeading,
      DoctorText.username \o shown(system.username, redacted, system),
      DoctorText.homedir \o shown(system.homedir, redacted, system),
      DoctorText.hostname \o shown(system.hostname, redacted, system),
      DoctorText.cwd \o shown(node.cwd, redacted, system),
      DoctorText.argv \o shown(node.argv, redacted, system)>>

xcodeLines(xcode, redacted, system) ==
    <<DoctorText.xcodeHeading,
      IF xcode.ok THEN DoctorText.xcodeVersion \o shown(xcode.version, redacted, system)
      ELSE DoctorText.error \o shown(xcode.error, redacted, system)>>

reportLines(d) ==
    LET redacted == isRedacted(d.nonRedacted)
    IN  <<modeBanner(redacted)>>
        \o manifestLines(d.manifest, redacted, d.system)
        \o runtimeLines(d.runtime)
        \o dependencyLines(d.axe, redacted, d.system)
        \o featureLines(d.axe, d.axeAtLeastVersion, redacted, d.system)
        \o environmentLines(d.env, redacted, d.system)
        \o systemLines(d.system, d.node, redacted)
        \o xcodeLines(d.xcode, redacted, d.system)

(* Mutant: a failed probe makes the whole response an error. *)
reportIsErrorOnProbeError(d) == ~d.manifest.ok \/ ~d.xcode.ok

reportIsError(d) == FALSE

doctorResponse(d) ==
    [content |-> <<[type |-> "text", text |-> Join(reportLines(d), DoctorText.newline)]>>,
     isError |-> reportIsError(d)]

(* What the injected dependencies answer. *)
ManifestInfos ==
    {[ok |-> TRUE, totalTools |-> 1, workflowCount |-> 1],
     [ok |-> FALSE, error |-> Fixture.manifestError]}

RuntimeInfos ==
    {[initialized |-> FALSE],
     [initialized |-> TRUE, registeredToolCount |-> 0],
     [initialized |-> TRUE, registeredToolCount |-> 1]}

AxeChecks ==
    {[result |-> Unavailable, axeAtLeastVersion |-> FALSE],
     [result |-> AvailableWith(Fixture.axeVersion), axeAtLeastVersion |-> FALSE],
     [result |-> AvailableWith(Null), axeAtLeastVersion |-> FALSE],
     [result |-> AvailableWith(Fixture.axeVersion), axeAtLeastVersion |-> TRUE]}

XcodeInfos ==
    {[ok |-> TRUE, version |-> Fixture.xcodeVersion],
     [ok |-> FALSE, error |-> Fixture.xcodeError]}

Surroundings ==
    {[path |-> Fixture.pathPlain, cwd |-> Fixture.root, argv |-> Fixture.argvPlain],
     [path |-> Fixture.pathUnderHome, cwd |-> Fixture.projectDir,
      argv |-> Fixture.argvUnderHome],
     [path |-> Fixture.pathEmbedding, cwd |-> Fixture.root, argv |-> Fixture.argvPlain]}

EnvironmentOf(surrounding, apiKey) ==
    <<[name |-> Fixture.PATH, value |-> surrounding.path],
      [name |-> Fixture.HOME, value |-> Fixture.homedir],
      [name |-> Fixture.USER, value |-> Fixture.username],
      [name |-> Fixture.API_KEY, value |-> apiKey]>>

SystemInfo ==
    [username |-> Fixture.username, homedir |-> Fixture.homedir,
     hostname |-> Fixture.hostname]

DoctorCall(nonRedacted, manifest, runtime, axeCheck, xcode, surrounding, apiKey) ==
    [pc |-> "start", nonRedacted |-> nonRedacted, manifest |-> manifest,
     runtime |-> runtime, axe |-> axeCheck.result,
     axeAtLeastVersion |-> axeCheck.axeAtLeastVersion, xcode |-> xcode,
     env |-> EnvironmentOf(surrounding, apiKey), system |-> SystemInfo,
     node |-> [cwd |-> surrounding.cwd, argv |-> surrounding.argv],
     response |-> Pending]

InitDoctor ==
    /\ MainIdle
    /\ kp = KpIdle
    /\ val = ValIdle
    /\ probe = ProbeIdle
    /\ doc \in {DoctorCall(n, m, r, a, x, s, k) :
                   n \in {"absent", "false", "true"}, m \in ManifestInfos,
                   r \in RuntimeInfos, a \in AxeChecks, x \in XcodeInfos,
                   s \in Surroundings, k \in {Null, Fixture.secret}}

runDoctor ==
    /\ doc.pc = "start"
    /\ doc' = [doc EXCEPT !.pc = "done", !.response = doctorResponse(doc)]
    /\ UNCHANGED <<params, fileExists, pc, commands, outcomes, previousValue, response,
                   kp, val, probe>>

NextDoctor == runDoctor

SpecDoctor == InitDoctor /\ [][NextDoctor]_vars

(***************************************************************************)
(* Vocabulary of the properties below.                                     *)
(***************************************************************************)
CommandText(i) == commands[i][3]

CommandOp(i) ==
    IF StartsWith(CommandText(i), CmdPrint) THEN "Print"
    ELSE IF StartsWith(CommandText(i), CmdSet) THEN "Set"
    ELSE IF StartsWith(CommandText(i), CmdAdd) THEN "Add"
    ELSE "other"

CommandOps == [i \in 1..Len(commands) |-> CommandOp(i)]

NoAddIssued == \A i \in 1..Len(commands) : CommandOp(i) # "Add"

Failed(o) == o.kind = "result" /\ ~o.success

Succeeded(o) == o.kind = "result" /\ o.success

ErrorTextOf(o) == getCommandErrorText(o.output, o.error)

Returned == pc = "done" /\ response # Pending /\ Len(response.content) = 1

ResponseText == response.content[1].text

ReturnedError(title) == Returned /\ response.isError /\ Includes(ResponseText, title)

ReturnedSuccess == Returned /\ ~response.isError

HasMissingKeyMarker(text) ==
    \E marker \in {TxtDoesNotExist, TxtUnknownEntry, TxtMissingKey} :
        Includes(ToLowerCase(text), marker)

HasNonMissingMarker(text) ==
    \E marker \in {TxtTypeMismatch, TxtCannotParse, TxtMalformed, TxtInvalid} :
        Includes(ToLowerCase(text), marker)

(* The value a Print returned, as the response shows it: as it is for a string, *)
(* without surrounding whitespace for bool, int and real.                       *)
Shown(o) == IF params.valueType = "string" THEN o.output ELSE Trim(o.output)

(* String literals of the tests and of the specification's examples. *)
LitSetErrorTypeMismatch == <<"s","e","t","_","e","r","r","o","r",":"," ","T","y","p","e"," ",
    "m","i","s","m","a","t","c","h">>
LitPrintCount == <<"P","r","i","n","t"," ",":","C","o","u","n","t">>
LitSetCount13 == <<"S","e","t"," ",":","C","o","u","n","t"," ","1","3">>
LitSetCountNewName == <<"S","e","t"," ",":","C","o","u","n","t"," ","\"","N","e","w"," ","N",
    "a","m","e","\"">>
LitPrintNested == <<"P","r","i","n","t"," ",":","N","S",":","A","l","l","o","w","s">>
LitSetNestedTrue == <<"S","e","t"," ",":","N","S",":","A","l","l","o","w","s"," ","t","r","u",
    "e">>
LitAddNestedBoolTrue == <<"A","d","d"," ",":","N","S",":","A","l","l","o","w","s"," ","b","o",
    "o","l"," ","t","r","u","e">>
LitToTrue == <<"t","o"," ","'","t","r","u","e","'">>
LitQuotedNewName == <<"'","N","e","w"," ","N","a","m","e","'">>
LitPreviousOldName == <<"P","r","e","v","i","o","u","s"," ","v","a","l","u","e",":"," ","O","l",
    "d"," ","N","a","m","e">>
LitPreviousValueColon == <<"P","r","e","v","i","o","u","s"," ","v","a","l","u","e",":"," ">>
LitSegmentAColonB == <<"A",":","B">>
LitSegmentC == <<"C">>
LitEscapedPath == <<":","A","\\",":","B",":","C">>

(***************************************************************************)
(* C1: a Set that fails with a non-missing error text (one of 'type        *)
(* mismatch', 'cannot parse', 'malformed', 'invalid', and no missing-key   *)
(* marker) is never followed by an Add, with createIfMissing or without,   *)
(* nor by a verification Print, and the response is an error whose text    *)
(* holds 'set_error: ' followed by the Set error text.                     *)
(***************************************************************************)
C1_NonMissingSetFailureNeverAdds ==
    (/\ Len(outcomes) >= 2
     /\ Failed(outcomes[2])
     /\ HasNonMissingMarker(ErrorTextOf(outcomes[2]))
     /\ ~HasMissingKeyMarker(ErrorTextOf(outcomes[2])))
    => /\ NoAddIssued
       /\ CommandOps = <<"Print", "Set">>
       /\ Returned
       /\ response.isError
       /\ Includes(ResponseText, TxtSetErrorPrefix \o ErrorTextOf(outcomes[2]))

C1_Witness ==
    /\ params.keyPath = KeyPathSimple
    /\ params.value = Value13
    /\ params.valueType = "int"
    /\ params.createIfMissing
    /\ outcomes = <<Result(TRUE, Out12, Null), Result(FALSE, <<>>, ErrTypeMismatch)>>
    /\ <<CommandText(1), CommandText(2)>> = <<LitPrintCount, LitSetCount13>>
    /\ Len(commands) = 2
    /\ ReturnedError(TxtFailedToSet)
    /\ Includes(ResponseText, LitSetErrorTypeMismatch)

(***************************************************************************)
(* C2: with createIfMissing = false no Add is ever issued, whatever the    *)
(* Set failure says, and a failed Set yields the error 'Failed to set      *)
(* plist value' holding the Set error text.                                *)
(***************************************************************************)
C2_AddOnlyWithCreateIfMissing ==
    ~params.createIfMissing
    => /\ NoAddIssued
       /\ (Len(outcomes) >= 2 /\ Failed(outcomes[2]))
          => /\ ReturnedError(TxtFailedToSet)
             /\ Includes(ResponseText, ErrorTextOf(outcomes[2]))
             /\ Len(commands) = 2

C2_Witness ==
    /\ ~params.createIfMissing
    /\ Len(outcomes) = 2
    /\ outcomes[2] = Result(FALSE, <<>>, ErrEntryDoesNotExist)
    /\ ReturnedError(TxtFailedToSet)
    /\ Includes(ResponseText, ErrEntryDoesNotExist)
    /\ NoAddIssued

(***************************************************************************)
(* C3: first Print fails, Set fails with a missing-key message,            *)
(* createIfMissing is true, Add succeeds, final Print succeeds: exactly    *)
(* the four commands Print, Set, Add, Print in that order, the Add with    *)
(* the valueType and the normalized value (bool 'TRUE' goes as 'true'),    *)
(* and a success response that reports the value of the final Print.       *)
(***************************************************************************)
C3_MissingKeyFallback ==
    (/\ Len(outcomes) = 4
     /\ Failed(outcomes[1])
     /\ Failed(outcomes[2])
     /\ HasMissingKeyMarker(ErrorTextOf(outcomes[2]))
     /\ params.createIfMissing
     /\ Succeeded(outcomes[3])
     /\ Succeeded(outcomes[4]))
    => /\ CommandOps = <<"Print", "Set", "Add", "Print">>
       /\ CommandText(1) = CommandText(4)
       /\ CommandText(3) = CmdAdd \o SubSeq(CommandText(1), Len(CmdPrint) + 1, Len(CommandText(1)))
                           \o <<" ">> \o ValueTypeText(params.valueType) \o <<" ">>
                           \o NormalizedValueResult.commandValue
       /\ (params.valueType = "bool"
           => NormalizedValueResult.commandValue \in {TxtTrue, TxtFalse})
       /\ (params.keyPath = KeyPathNested /\ params.value = ValueTRUE
              /\ params.valueType = "bool")
          => <<CommandText(1), CommandText(2), CommandText(3), CommandText(4)>>
             = <<LitPrintNested, LitSetNestedTrue, LitAddNestedBoolTrue, LitPrintNested>>
       /\ ReturnedSuccess
       /\ Includes(ResponseText, TxtTo \o Shown(outcomes[4]) \o TxtQuoteDot)

C3_Witness ==
    /\ params.keyPath = KeyPathNested
    /\ params.value = ValueTRUE
    /\ params.valueType = "bool"
    /\ params.createIfMissing
    /\ outcomes = <<Result(FALSE, <<>>, ErrEntryDoesNotExist),
                    Result(FALSE, <<>>, ErrEntryDoesNotExist),
                    Result(TRUE, <<>>, Null),
                    Result(TRUE, OutTrue, Null)>>
    /\ CommandText(3) = LitAddNestedBoolTrue
    /\ ReturnedSuccess
    /\ Includes(ResponseText, LitToTrue)

(***************************************************************************)
(* C4: first Print, Set and final Print all succeed: exactly the three     *)
(* commands Print, Set, Print in that order (no Add), and a non-error      *)
(* response whose text holds the value of the final Print and 'Previous    *)
(* value: ' followed by the value of the first Print.                      *)
(***************************************************************************)
C4_ExistingKeyUpdate ==
    (/\ Len(outcomes) = 3
     /\ Succeeded(outcomes[1])
     /\ Succeeded(outcomes[2])
     /\ Succeeded(outcomes[3]))
    => /\ CommandOps = <<"Print", "Set", "Print">>
       /\ CommandText(1) = CommandText(3)
       /\ ReturnedSuccess
       /\ Includes(ResponseText, TxtTo \o Shown(outcomes[3]) \o TxtQuoteDot)
       /\ Includes(ResponseText, LitPreviousValueColon \o Shown(outcomes[1]))

C4_Witness ==
    /\ params.keyPath = KeyPathSimple
    /\ params.value = ValueNewName
    /\ params.valueType = "string"
    /\ outcomes = <<Result(TRUE, OutOldName, Null), Result(TRUE, <<>>, Null),
                    Result(TRUE, OutNewName, Null)>>
    /\ <<CommandText(1), CommandText(2), CommandText(3)>>
       = <<LitPrintCount, LitSetCountNewName, LitPrintCount>>
    /\ ReturnedSuccess
    /\ Includes(ResponseText, LitQuotedNewName)
    /\ Includes(ResponseText, LitPreviousOldName)

(***************************************************************************)
(* C5: set_plist_valueLogic always resolves to a response and never        *)
(* throws, whatever the executor does on Print, Set, Add and the           *)
(* verification Print: succeed, return a failure, or raise.                *)
(***************************************************************************)
C5_AlwaysResolvesToResponse ==
    \/ pc \in {"start", "readPrevious", "set", "add", "verify"}
    \/ Returned

WriteSucceeded ==
    \E i \in 1..Len(outcomes) : CommandOp(i) \in {"Set", "Add"} /\ Succeeded(outcomes[i])

(***************************************************************************)
(* C6: 'Failed to set plist value' is returned only if no Set and no Add   *)
(* succeeded; and when a Set or Add succeeded and the follow-up Print      *)
(* returned a failure, the response is the error 'Failed to verify plist   *)
(* write' with 'verify_error: ' and the Print error text, never a success  *)
(* and never 'Failed to set plist value'.                                  *)
(***************************************************************************)
C6_UnverifiedWriteIsDistinct ==
    /\ (Returned /\ Includes(ResponseText, TxtFailedToSet)) => ~WriteSucceeded
    /\ \A i \in 1..Len(outcomes) :
          (/\ CommandOp(i) \in {"Set", "Add"}
           /\ Succeeded(outcomes[i])
           /\ Len(outcomes) > i
           /\ Failed(outcomes[i + 1]))
          => /\ CommandOp(i + 1) = "Print"
             /\ ReturnedError(TxtFailedToVerify)
             /\ Includes(ResponseText, TxtVerifyErrorPrefix \o ErrorTextOf(outcomes[i + 1]))
             /\ ~Includes(ResponseText, TxtFailedToSet)

C6_Witness ==
    /\ Len(outcomes) = 4
    /\ CommandOp(3) = "Add"
    /\ Succeeded(outcomes[3])
    /\ outcomes[4] = Result(FALSE, <<>>, ErrNotReadable)
    /\ ReturnedError(TxtFailedToVerify)
    /\ Includes(ResponseText, TxtVerifyErrorPrefix \o ErrNotReadable)

(***************************************************************************)
(* C7: when existsSync(plistPath) is false the response is the error       *)
(* 'Plist file not found' and the executor is never invoked.               *)
(***************************************************************************)
C7_FileNotFoundBeforeAnyCommand ==
    (~fileExists /\ pc # "start")
    => /\ ReturnedError(TxtPlistFileNotFound)
       /\ commands = <<>>
       /\ outcomes = <<>>

C7_Witness ==
    /\ ~fileExists
    /\ params.keyPath = KeyPathSimple
    /\ params.value = ValueNewName
    /\ params.valueType = "string"
    /\ ReturnedError(TxtPlistFileNotFound)
    /\ commands = <<>>

(***************************************************************************)
(* Key paths and values as the properties describe them, stated without    *)
(* the parser: escaped positions, segments between unescaped colons, the   *)
(* grammar of each value type, character-wise escaping.                    *)
(***************************************************************************)
(* Position i of s is escaped: the character before it is a backslash that *)
(* is not escaped itself.                                                  *)
RECURSIVE IsEscaped(_, _)
IsEscaped(s, i) == i > 1 /\ s[i - 1] = "\\" /\ ~IsEscaped(s, i - 1)

IsEscapingBackslash(s, i) == s[i] = "\\" /\ ~IsEscaped(s, i)

UnescapedColons(s) == {i \in 1..Len(s) : s[i] = ":" /\ ~IsEscaped(s, i)}

(* The segments lie between two neighbouring cuts: the start, the unescaped *)
(* colons, and the end.                                                     *)
Cuts(s) == {0, Len(s) + 1} \cup UnescapedColons(s)

NeighbouringCuts(s) ==
    {c \in Cuts(s) \X Cuts(s) : c[1] < c[2] /\ ~\E m \in Cuts(s) : c[1] < m /\ m < c[2]}

(* Nothing but whitespace is left of the segment once its escaping backslashes *)
(* are dropped.                                                                *)
SegmentIsBlank(s, from, to) ==
    \A p \in (from + 1)..(to - 1) : IsEscapingBackslash(s, p) \/ s[p] \in Whitespace

EndsWithUnescapedBackslash(s) == Len(s) > 0 /\ IsEscapingBackslash(s, Len(s))

KeyPathIsRejectable(s) ==
    \/ \E c \in NeighbouringCuts(s) : SegmentIsBlank(s, c[1], c[2])
    \/ EndsWithUnescapedBackslash(s)

ValueMatchesGrammar(value, valueType) ==
    CASE valueType = "bool" -> ToLowerCase(Trim(value)) \in {TxtTrue, TxtFalse}
      [] valueType = "int" -> MatchesIntRegex(Trim(value))
      [] valueType = "real" -> MatchesRealRegex(Trim(value)) /\ NumberIsFinite(Trim(value))
      [] OTHER -> TRUE

(***************************************************************************)
(* C8: for an existing file, a keyPath that does not parse or a value      *)
(* outside the grammar of its valueType yields the error 'Parameter        *)
(* validation failed' and the executor is never invoked.                   *)
(***************************************************************************)
C8_ValidationBeforeAnyCommand ==
    (/\ fileExists
     /\ pc # "start"
     /\ \/ KeyPathIsRejectable(params.keyPath)
        \/ ~ValueMatchesGrammar(params.value, params.valueType))
    => /\ ReturnedError(TxtParameterValidationFailed)
       /\ commands = <<>>
       /\ outcomes = <<>>

C8_Witness ==
    /\ fileExists
    /\ params.keyPath = KeyPathSimple
    /\ params.value = ValueNewName
    /\ params.valueType = "bool"
    /\ ReturnedError(TxtParameterValidationFailed)
    /\ Includes(ResponseText, TxtBoolError)
    /\ commands = <<>>

EscapedCharacter(c) ==
    IF c = "\\" THEN <<"\\", "\\">> ELSE IF c = ":" THEN <<"\\", ":">> ELSE <<c>>

RECURSIVE EscapedSegment(_)
EscapedSegment(segment) ==
    IF segment = <<>> THEN <<>>
    ELSE EscapedCharacter(Head(segment)) \o EscapedSegment(Tail(segment))

RECURSIVE ColonJoined(_)
ColonJoined(segments) ==
    IF segments = <<>> THEN <<>>
    ELSE <<":">> \o EscapedSegment(Head(segments)) \o ColonJoined(Tail(segments))

(***************************************************************************)
(* C9: for every accepted keyPath the PlistBuddy path is ':' followed by   *)
(* the segments joined with ':', each with every backslash doubled and     *)
(* every colon prefixed with a backslash ('A\:B:C' gives ['A:B', 'C'] and  *)
(* ':A\:B:C'), and parsing that path without its leading colon gives the   *)
(* same segments.                                                          *)
(***************************************************************************)
C9_KeyPathEscapingRoundTrips ==
    /\ (kp.phase \in {"normalized", "reparsed"} /\ kp.normalized.ok)
       => /\ kp.normalized.segments = kp.parsed.segments
          /\ kp.normalized.plistBuddyKeyPath = ColonJoined(kp.normalized.segments)
    /\ (kp.phase \in {"normalized", "reparsed"} /\ kp.keyPath = KeyPathEscapedColon)
       => /\ kp.normalized.ok
          /\ kp.normalized.segments = <<LitSegmentAColonB, LitSegmentC>>
          /\ kp.normalized.plistBuddyKeyPath = LitEscapedPath
    /\ kp.phase = "reparsed"
       => /\ kp.reparsed.ok
          /\ kp.reparsed.segments = kp.normalized.segments

C9_Witness ==
    /\ kp.phase = "reparsed"
    /\ kp.keyPath = KeyPathEscapedColon
    /\ kp.normalized.plistBuddyKeyPath = LitEscapedPath
    /\ kp.reparsed.ok
    /\ kp.reparsed.segments = <<LitSegmentAColonB, LitSegmentC>>

(***************************************************************************)
(* C10: parseKeyPathSegments rejects a keyPath exactly when a segment      *)
(* between unescaped colons (a leading or trailing one included) is empty  *)
(* once unescaped and trimmed, or the keyPath ends with an unescaped       *)
(* backslash; every other keyPath is accepted with a non-empty list of     *)
(* non-empty segments.                                                     *)
(***************************************************************************)
C10_RejectsExactlyEmptyOrUnfinished ==
    kp.phase \in {"parsed", "normalized", "reparsed"}
    => /\ kp.parsed.ok <=> ~KeyPathIsRejectable(kp.keyPath)
       /\ kp.parsed.ok
          => /\ Len(kp.parsed.segments) >= 1
             /\ \A i \in 1..Len(kp.parsed.segments) : Len(kp.parsed.segments[i]) >= 1

C10_WitnessRejected ==
    /\ kp.phase = "parsed"
    /\ kp.keyPath = <<"A", ":", "A", "\\">>
    /\ ~kp.parsed.ok
    /\ kp.parsed.error = TxtUnfinishedEscape

(***************************************************************************)
(* The literal grammars, stated on the characters of the text.             *)
(***************************************************************************)
Signs == {"+", "-"}

DigitsOnly(s, from, to) == \A i \in from..to : IsDigit(s[i])

(* an optional sign followed by one or more digits *)
IsIntegerLiteral(s) ==
    \E signLen \in 0..1 :
        /\ Len(s) > signLen
        /\ signLen = 1 => s[1] \in Signs
        /\ DigitsOnly(s, signLen + 1, Len(s))

(* sign? (digits '.' digits? | '.' digits | digits) ([eE] sign? digits)? :  *)
(* the integer part ends at intEnd, the fraction at fracEnd, and what      *)
(* follows the fraction is nothing or an exponent.                         *)
IsDecimalOrScientificLiteral(s) ==
    \E signLen \in 0..1, intEnd \in 0..Len(s), fracEnd \in 0..Len(s) :
        /\ signLen <= intEnd /\ intEnd <= fracEnd
        /\ signLen = 1 => (Len(s) >= 1 /\ s[1] \in Signs)
        /\ DigitsOnly(s, signLen + 1, intEnd)
        /\ \/ fracEnd = intEnd /\ intEnd > signLen
           \/ /\ fracEnd > intEnd
              /\ s[intEnd + 1] = "."
              /\ DigitsOnly(s, intEnd + 2, fracEnd)
              /\ (intEnd - signLen) + (fracEnd - intEnd - 1) >= 1
        /\ \/ fracEnd = Len(s)
           \/ /\ fracEnd < Len(s)
              /\ s[fracEnd + 1] \in {"e", "E"}
              /\ IsIntegerLiteral(SubSeq(s, fracEnd + 2, Len(s)))

IsBooleanLiteral(s) ==
    \E word \in {TxtTrue, TxtFalse} :
        /\ Len(s) = Len(word)
        /\ \A i \in 1..Len(word) : s[i] = word[i] \/ LowerChar(s[i]) = word[i]

AcceptedByGrammar(value, valueType) ==
    LET trimmed == Trim(value)
    IN  CASE valueType = "bool" -> IsBooleanLiteral(trimmed)
          [] valueType = "int" -> IsIntegerLiteral(trimmed)
          [] valueType = "real" -> IsDecimalOrScientificLiteral(trimmed)
                                   /\ NumberIsFinite(trimmed)
          [] valueType = "string" -> TRUE

(***************************************************************************)
(* C11: validateValueForType accepts a value exactly when it follows the   *)
(* literal grammar of its valueType: bool iff, trimmed and lower-cased, it *)
(* is 'true' or 'false'; int iff, trimmed, it is an optional sign followed *)
(* by one or more digits; real iff, trimmed, it is a finite decimal or     *)
(* scientific literal; string always.  'Infinity' as real and '1.2' as int *)
(* are rejected.                                                           *)
(***************************************************************************)
C11_ValidationFollowsLiteralGrammar ==
    val.phase \in {"validated", "normalized"}
    => /\ (val.error = Null) <=> AcceptedByGrammar(val.value, val.valueType)
       /\ val.error # Null
          => val.error = (CASE val.valueType = "bool" -> TxtBoolError
                            [] val.valueType = "int" -> TxtIntError
                            [] val.valueType = "real" -> TxtRealError)
       /\ (val.value = ValueInfinity /\ val.valueType = "real") => val.error = TxtRealError
       /\ (val.value = Value1_2 /\ val.valueType = "int") => val.error = TxtIntError

C11_WitnessInfinityRejected ==
    /\ val.phase = "validated"
    /\ val.value = ValueInfinity
    /\ val.valueType = "real"
    /\ val.error = TxtRealError

(***************************************************************************)
(* Vocabulary of the probe-adapter properties.                             *)
(***************************************************************************)
CheckingBinary == probe.call = "checkBinaryAvailability"

ProbeReturned == probe.pc = "done"

ProbeAwaiting == probe.pc \in {"axeVersion", "which", "version", "xcode"}

InstallCapableProbes == {"isXcodemakeAvailable"}

ReadOnlyCommands(p) ==
    {<<"which", p.binary>>, <<"mise", "--version">>}
    \cup (IF p.axeBinary.found THEN {<<p.axeBinary.path, "--version">>} ELSE {})

CalledFeatures == {probe.featureCalls[i] : i \in 1..Len(probe.featureCalls)}

(***************************************************************************)
(* C12: binary checks are read-only.  checkBinaryAvailability('xcodemake') *)
(* never invokes the executor, never calls an install-capable probe, and   *)
(* returns available equal to what isXcodemakeBinaryAvailable() answers;   *)
(* for every binary name the only commands issued are                      *)
(* '<axe path> --version', 'which <binary>' and 'mise --version'.          *)
(***************************************************************************)
C12_BinaryChecksAreReadOnly ==
    CheckingBinary
    => /\ \A i \in 1..Len(probe.commands) : probe.commands[i] \in ReadOnlyCommands(probe)
       /\ CalledFeatures \cap InstallCapableProbes = {}
       /\ probe.binary = "xcodemake"
          => /\ probe.commands = <<>>
             /\ probe.pc \in {"start", "done"}
             /\ ProbeReturned
                => /\ probe.result.available = probe.xcodemakeBinaryAvailable
                   /\ probe.featureCalls = <<"isXcodemakeBinaryAvailable">>

C12_WitnessXcodemakeMissing ==
    /\ CheckingBinary
    /\ probe.binary = "xcodemake"
    /\ ~probe.xcodemakeBinaryAvailable
    /\ ProbeReturned
    /\ probe.result = Unavailable
    /\ probe.commands = <<>>

(***************************************************************************)
(* C17: checkBinaryAvailability never throws past its boundary.  Whatever  *)
(* the executor does (success, failure result, raised exception) the call  *)
(* resolves to {available, version?}; a raised exception or a failed       *)
(* 'which' gives {available:false}, and a failed or throwing version       *)
(* command gives available:true with the placeholder version.              *)
(***************************************************************************)
C17_CheckBinaryAvailabilityNeverThrows ==
    CheckingBinary
    => /\ probe.pc # "rejected"
       /\ ProbeReturned
          => /\ probe.result.available \in BOOLEAN
             /\ probe.result.available => probe.result.version # Null
             /\ \A i \in 1..Len(probe.outcomes) :
                   LET o == probe.outcomes[i]
                       failedOrThrew == o.kind = "throw" \/ ~o.success
                   IN  /\ (probe.commands[i][1] = "which" /\ failedOrThrew)
                          => probe.result = [available |-> FALSE, version |-> Null]
                       /\ (probe.commands[i][2] = "--version" /\ failedOrThrew)
                          => probe.result = [available |-> TRUE,
                                             version |-> TxtAvailableNoVersion]

C17_WitnessVersionCommandThrows ==
    /\ CheckingBinary
    /\ probe.binary = "mise"
    /\ ProbeReturned
    /\ Len(probe.outcomes) = 2
    /\ probe.outcomes[1].success
    /\ probe.outcomes[2].kind = "throw"
    /\ probe.result = [available |-> TRUE, version |-> TxtAvailableNoVersion]

(***************************************************************************)
(* C18: no probe blocks indefinitely.  A probe that is waiting for an      *)
(* external command (checkBinaryAvailability's 'which' and '--version',    *)
(* getXcodeInfo's four commands) can always take a further step towards    *)
(* its result, also when the command never completes.                      *)
(***************************************************************************)
C18_NoProbeBlocksIndefinitely == ProbeAwaiting => ENABLED NextProbe

(***************************************************************************)
(* Vocabulary of the report properties.                                    *)
(***************************************************************************)
DoctorReturned == doc.pc = "done"

Report == doc.response.content[1].text

RedactedMode == doc.nonRedacted \in {"absent", "false"}

NonRedactedBanner == DoctorText.modePrefix \o WarningSign \o DoctorText.modeNonRedacted

UnderHome(text) == Includes(text, Fixture.homedir \o <<"/">>) \/ text = Fixture.homedir

(* The segments of the working directory below the home directory. *)
SegmentsBelowHome ==
    IF StartsWith(doc.node.cwd, Fixture.homedir \o <<"/">>)
    THEN LET below == SubSeq(doc.node.cwd, Len(Fixture.homedir) + 2, Len(doc.node.cwd))
             parts == SplitText(below, "/")
         IN  {parts[i] : i \in 1..Len(parts)}
    ELSE {}

SecretWords == {<<"K","E","Y">>, <<"T","O","K","E","N">>, <<"S","E","C","R","E","T">>,
                <<"P","A","S","S","W","O","R","D">>}

ContainsIgnoringCase(name, word) ==
    \E start \in 1..(Len(name) - Len(word) + 1) :
        \A j \in 1..Len(word) : LowerChar(name[start + j - 1]) = LowerChar(word[j])

SecretLike(name) == \E word \in SecretWords : ContainsIgnoringCase(name, word)

(***************************************************************************)
(* C13: in redacted mode (nonRedacted absent or false) the report holds no *)
(* literal occurrence of the username, nor of a path segment below the     *)
(* home directory, wherever it came from (environment values, system info, *)
(* working directory, invocation arguments); home-directory paths appear   *)
(* as '/Users/<redacted>'.                                                 *)
(***************************************************************************)
C13_RedactedReportHasNoUserOrHomePath ==
    (DoctorReturned /\ RedactedMode)
    => /\ ~Includes(Report, Fixture.username)
       /\ \A segment \in SegmentsBelowHome : ~Includes(Report, segment)
       /\ Includes(Report, DoctorText.homedir \o DoctorText.usersRedacted)

C19_MissingRegistryIsUnavailableNotZero ==
    (DoctorReturned /\ ~doc.runtime.initialized)
    => /\ Includes(Report, DoctorText.runtimeHeading \o DoctorText.newline
                           \o DoctorText.runtimeUnavailable \o DoctorText.newline)
       /\ ~Includes(Report, DoctorText.registeredTools)
       /\ doc.manifest.ok
          => /\ Includes(Report, DoctorText.totalTools \o CountText(doc.manifest.totalTools)
                                 \o DoctorText.newline)
             /\ Includes(Report, DoctorText.workflowCount
                                 \o CountText(doc.manifest.workflowCount)
                                 \o DoctorText.newline)

C19_WitnessRegistryMissing ==
    /\ DoctorReturned
    /\ ~doc.runtime.initialized
    /\ doc.manifest.ok
    /\ Includes(Report, DoctorText.runtimeUnavailable)

AlwaysShown ==
    {EnvNames.INCREMENTAL_BUILDS_ENABLED, EnvNames.PATH, EnvNames.DEVELOPER_DIR,
     EnvNames.HOME, EnvNames.USER, EnvNames.TMPDIR, EnvNames.NODE_ENV,
     EnvNames.SENTRY_DISABLED, EnvNames.AXE_PATH, EnvNames.XBMCP_LAUNCH_JSON_WAIT_MS,
     EnvNames.XCODEBUILDMCP_DEBUGGER_BACKEND, EnvNames.XCODEBUILDMCP_UI_DEBUGGER_GUARD_MODE}

BeginsWithPrefix(name) ==
    /\ Len(name) >= Len(EnvNames.prefix)
    /\ \A i \in 1..Len(EnvNames.prefix) : name[i] = EnvNames.prefix[i]

C21_EnvironmentKeysAreExact ==
    (probe.call = "getEnvironmentVariables" /\ ProbeReturned)
    => LET set == DOMAIN probe.input
       IN  /\ DOMAIN probe.result = AlwaysShown \cup {name \in set : BeginsWithPrefix(name)}
           /\ \A name \in DOMAIN probe.result :
                 probe.result[name] = IF name \in set THEN probe.input[name] ELSE Null
           /\ probe.commands = <<>>

C21_WitnessPrefixedAndUnset ==
    /\ probe.call = "getEnvironmentVariables"
    /\ ProbeReturned
    /\ DOMAIN probe.input = {EnvNames.XCODEBUILDMCP_DEBUG, EnvNames.MY_XCODEBUILDMCP_KEY,
                             EnvNames.SHELL}
    /\ EnvNames.XCODEBUILDMCP_DEBUG \in DOMAIN probe.result
    /\ EnvNames.MY_XCODEBUILDMCP_KEY \notin DOMAIN probe.result
    /\ probe.result[EnvNames.PATH] = Null

(***************************************************************************)
(* C22: a Set failure whose text matches neither the missing-key nor the   *)
(* non-missing markers (classified 'unknown') falls back to Add exactly    *)
(* when createIfMissing is true: with createIfMissing the third command is *)
(* an Add issued after the failed Set, without it no Add is issued and the *)
(* Set failure is returned.                                                *)
(***************************************************************************)
SetFailedUnclassified ==
    /\ Len(outcomes) >= 2
    /\ Failed(outcomes[2])
    /\ ~HasMissingKeyMarker(ErrorTextOf(outcomes[2]))
    /\ ~HasNonMissingMarker(ErrorTextOf(outcomes[2]))

C22_UnknownFailureAddsIffCreateIfMissing ==
    SetFailedUnclassified
    => /\ classifySetFailure(ErrorTextOf(outcomes[2])) = "unknown"
       /\ params.createIfMissing
          => /\ Len(commands) >= 3
             /\ <<CommandOp(1), CommandOp(2), CommandOp(3)>> = <<"Print", "Set", "Add">>
       /\ ~params.createIfMissing
          => /\ NoAddIssued
             /\ Len(commands) = 2
             /\ ReturnedError(TxtFailedToSet)

C22_WitnessBusyFileAdded ==
    /\ params.createIfMissing
    /\ Len(outcomes) = 3
    /\ outcomes[2] = Result(FALSE, <<>>, ErrBusy)
    /\ Succeeded(outcomes[3])
    /\ CommandOps = <<"Print", "Set", "Add", "Print">>

(***************************************************************************)
(* C23: command ordering of set_plist_valueLogic.  The commands issued are *)
(* a prefix of Print, Set, Add, Print or of Print, Set, Print, so at most  *)
(* four; once the first Print has settled (success, failure or raise) and  *)
(* validation had passed, Set has been issued exactly once; Add is issued  *)
(* at most once, as third command, after a failed Set; a verification      *)
(* Print follows only a successful Set or a successful Add; after an Add   *)
(* that did not succeed no further command is issued.                      *)
(***************************************************************************)
IsPrefixOf(s, t) == Len(s) <= Len(t) /\ s = SubSeq(t, 1, Len(s))

CountOp(op) == Cardinality({i \in 1..Len(commands) : CommandOp(i) = op})

ValidationPassed == EarlyResponse(params, fileExists) = Pending

C23_CommandOrdering ==
    /\ Len(commands) <= 4
    /\ \/ IsPrefixOf(CommandOps, <<"Print", "Set", "Add", "Print">>)
       \/ IsPrefixOf(CommandOps, <<"Print", "Set", "Print">>)
    /\ Len(outcomes) <= Len(commands)
    /\ (ValidationPassed /\ Len(outcomes) >= 1) => CountOp("Set") = 1
    /\ ~ValidationPassed => commands = <<>>
    /\ CountOp("Set") <= 1
    /\ CountOp("Add") <= 1
    /\ \A i \in 1..Len(commands) :
          /\ CommandOp(i) = "Add"
             => i = 3 /\ CommandOp(2) = "Set" /\ Failed(outcomes[2])
          /\ (CommandOp(i) = "Print" /\ i > 1)
             => CommandOp(i - 1) \in {"Set", "Add"} /\ Succeeded(outcomes[i - 1])
    /\ (Len(outcomes) >= 3 /\ CommandOp(3) = "Add" /\ ~Succeeded(outcomes[3]))
       => Len(commands) = 3

C23_WitnessFirstPrintThrewAddFailed ==
    /\ Len(outcomes) = 3
    /\ outcomes[1] = Thrown
    /\ Failed(outcomes[2])
    /\ Failed(outcomes[3])
    /\ CommandOps = <<"Print", "Set", "Add">>
    /\ Returned

(***************************************************************************)
(* C24: classification precedence.  A Set error text that holds a          *)
(* missing-key marker ('does not exist', 'unknown entry', 'missing key',   *)
(* in any case) together with a non-missing marker (such as 'invalid') is  *)
(* classified 'missing-key', and with createIfMissing the failed Set is    *)
(* followed by an Add.                                                     *)
(***************************************************************************)
C24_MissingKeyMarkerTakesPrecedence ==
    (/\ Len(outcomes) >= 2
     /\ Failed(outcomes[2])
     /\ HasMissingKeyMarker(ErrorTextOf(outcomes[2]))
     /\ HasNonMissingMarker(ErrorTextOf(outcomes[2])))
    => /\ classifySetFailure(ErrorTextOf(outcomes[2])) = "missing-key"
       /\ params.createIfMissing
          => Len(commands) >= 3 /\ CommandOp(3) = "Add"

C24_WitnessInvalidUnknownEntry ==
    /\ params.createIfMissing
    /\ Len(outcomes) = 2
    /\ outcomes[2] = Result(FALSE, <<>>, ErrInvalidMissing)
    /\ Includes(ToLowerCase(ErrInvalidMissing), TxtInvalid)
    /\ Includes(ToLowerCase(ErrInvalidMissing), TxtUnknownEntry)
    /\ CommandOps = <<"Print", "Set", "Add">>
    /\ pc = "add"

(***************************************************************************)
(* C25: a string value is sent between double quotes with each backslash,  *)
(* double quote, newline, carriage return and tab replaced by its two-     *)
(* character backslash escape and every other character copied (the value  *)
(* is not trimmed): what stands between the outer quotes has no unescaped  *)
(* double quote and reads back as the input, so distinct inputs give       *)
(* distinct command values.  For bool, int and real the command value is   *)
(* the trimmed value (bool: lower-cased too) without quotes.               *)
(***************************************************************************)
EscapedCharacters == {"\\", "\"", "\n", "\r", "\t"}

EscapeLetters == {"\\", "\"", "n", "r", "t"}

UnescapeLetter(c) ==
    IF c = "n" THEN "\n" ELSE IF c = "r" THEN "\r" ELSE IF c = "t" THEN "\t" ELSE c

(* Every backslash starts a two-character escape, and no escaped character *)
(* stands for itself.                                                      *)
RECURSIVE WellEscaped(_)
WellEscaped(s) ==
    IF s = <<>> THEN TRUE
    ELSE IF Head(s) = "\\"
    THEN Len(s) >= 2 /\ s[2] \in EscapeLetters /\ WellEscaped(SubSeq(s, 3, Len(s)))
    ELSE Head(s) \notin EscapedCharacters /\ WellEscaped(Tail(s))

RECURSIVE Unescape(_)
Unescape(s) ==
    IF s = <<>> THEN <<>>
    ELSE IF Head(s) = "\\"
    THEN <<UnescapeLetter(s[2])>> \o Unescape(SubSeq(s, 3, Len(s)))
    ELSE <<Head(s)>> \o Unescape(Tail(s))

(* t is v without the whitespace at its two ends. *)
IsTrimOf(t, v) ==
    \E i \in 1..(Len(v) + 1), j \in 0..Len(v) :
        /\ t = SubSeq(v, i, j)
        /\ \A k \in 1..Len(v) : (k < i \/ k > j) => v[k] \in Whitespace
        /\ t # <<>> => t[1] \notin Whitespace /\ t[Len(t)] \notin Whitespace

ValueNormalized == val.phase = "normalized" /\ val.normalized.ok

C25_StringsQuotedOthersTrimmed ==
    ValueNormalized
    => LET commandValue == val.normalized.commandValue
           inner == SubSeq(commandValue, 2, Len(commandValue) - 1)
       IN  IF val.valueType = "string"
           THEN /\ Len(commandValue) >= 2
                /\ commandValue[1] = "\""
                /\ commandValue[Len(commandValue)] = "\""
                /\ WellEscaped(inner)
                /\ Unescape(inner) = val.value
                /\ Len(inner) = Len(val.value)
                      + Cardinality({i \in 1..Len(val.value) :
                                        val.value[i] \in EscapedCharacters})
           ELSE /\ IsTrimOf(commandValue,
                            IF val.valueType = "bool" THEN ToLowerCase(val.value)
                            ELSE val.value)
                /\ commandValue # <<>>
                /\ \A i \in 1..Len(commandValue) : commandValue[i] # "\""

LitEscapedCommandValue == <<"\"","L","i","n","e","1","\\","n","L","i","n","e","2","\\","t","\\",
    "\"","Q","u","o","t","e","\\","\"","\\","\\","S","l","a","s","h","\"">>

C25_WitnessTestValueEscaped ==
    /\ ValueNormalized
    /\ val.valueType = "string"
    /\ val.value = ValueEscaped
    /\ val.normalized.commandValue = LitEscapedCommandValue

(***************************************************************************)
(* C26: getXcodeInfo is all-or-error and short-circuits.  It issues        *)
(* 'xcodebuild -version', 'xcode-select -p', 'xcrun --find xcodebuild',    *)
(* 'xcrun --version' in that order, each after the one before succeeded;   *)
(* at the first command that fails or raises it stops, issues no later     *)
(* command and returns an object with only an error string; after four     *)
(* successes it returns an object with exactly version, path,              *)
(* selectedXcode and xcrunVersion; it never returns a partial result and   *)
(* never raises.                                                           *)
(***************************************************************************)
GettingXcodeInfo == probe.call = "getXcodeInfo"

XcodeCommandOrder ==
    << <<"xcodebuild", "-version">>, <<"xcode-select", "-p">>,
       <<"xcrun", "--find", "xcodebuild">>, <<"xcrun", "--version">> >>

IsText(t) == t # Null /\ \A i \in 1..Len(t) : t[i] \in STRING

C26_XcodeInfoIsAllOrError ==
    GettingXcodeInfo
    => /\ probe.pc # "rejected"
       /\ IsPrefixOf(probe.commands, XcodeCommandOrder)
       /\ Len(probe.outcomes) <= Len(probe.commands)
       /\ \A i \in 1..Len(probe.outcomes) :
             IF Succeeded(probe.outcomes[i])
             THEN i < 4 => Len(probe.commands) >= i + 1
             ELSE /\ Len(probe.commands) = i
                  /\ ProbeReturned
                  /\ DOMAIN probe.result = {"error"}
                  /\ IsText(probe.result.error)
       /\ ProbeReturned
          => \/ /\ DOMAIN probe.result = {"version", "path", "selectedXcode", "xcrunVersion"}
                /\ probe.commands = XcodeCommandOrder
                /\ Len(probe.outcomes) = 4
                /\ \A i \in 1..4 : Succeeded(probe.outcomes[i])
                /\ \A f \in DOMAIN probe.result : IsText(probe.result[f])
             \/ /\ DOMAIN probe.result = {"error"}
                /\ ~Succeeded(probe.outcomes[Len(probe.outcomes)])

C26_WitnessThirdCommandThrows ==
    /\ GettingXcodeInfo
    /\ ProbeReturned
    /\ Len(probe.outcomes) = 3
    /\ probe.outcomes[3] = ThrownWith(TxtSpawnFailed)
    /\ probe.commands = SubSeq(XcodeCommandOrder, 1, 3)
    /\ probe.result = [error |-> TxtSpawnFailed]

(***************************************************************************)
(* C27: manifest inventory consistency.  getManifestToolInfo never raises; *)
(* it returns either an error text that begins with 'Failed to load        *)
(* manifest: ' or counts in which workflowCount is the number of keys of   *)
(* toolsByWorkflow, toolsByWorkflow[w] is the length of workflow w's tool  *)
(* list, and totalTools is the number of distinct tool ids over all        *)
(* workflows, hence at most the sum of toolsByWorkflow, and equal to it    *)
(* exactly when no tool id is listed more than once.                       *)
(***************************************************************************)
GettingManifestToolInfo == probe.call = "getManifestToolInfo"

(* The places <<workflow, position>> at which a tool id is listed. *)
Listings(workflows) ==
    {l \in (DOMAIN workflows) \X (1..MaxTools) : l[2] <= Len(workflows[l[1]].tools)}

ToolAt(workflows, l) == workflows[l[1]].tools[l[2]]

NoToolListedTwice(workflows) ==
    \A l, m \in Listings(workflows) : l # m => ToolAt(workflows, l) # ToolAt(workflows, m)

C27_ManifestInventoryIsConsistent ==
    GettingManifestToolInfo
    => /\ probe.pc # "rejected"
       /\ ProbeReturned
          => IF probe.input.kind = "throw"
             THEN /\ DOMAIN probe.result = {"error"}
                  /\ StartsWith(probe.result.error, ManifestText.failedToLoad)
                  /\ Len(probe.result.error) > Len(ManifestText.failedToLoad)
             ELSE LET workflows == probe.input.workflows
                      info == probe.result
                      sum == SumOver(info.toolsByWorkflow, DOMAIN info.toolsByWorkflow)
                  IN  /\ DOMAIN info = {"totalTools", "workflowCount", "toolsByWorkflow"}
                      /\ DOMAIN info.toolsByWorkflow = DOMAIN workflows
                      /\ info.workflowCount = Cardinality(DOMAIN info.toolsByWorkflow)
                      /\ \A w \in DOMAIN workflows :
                            info.toolsByWorkflow[w] = Len(workflows[w].tools)
                      /\ info.totalTools
                            = Cardinality({t \in ToolIds :
                                  \E l \in Listings(workflows) : ToolAt(workflows, l) = t})
                      /\ info.totalTools <= sum
                      /\ (info.totalTools = sum) <=> NoToolListedTwice(workflows)

C27_WitnessToolSharedByWorkflows ==
    /\ GettingManifestToolInfo
    /\ ProbeReturned
    /\ probe.input.kind = "result"
    /\ DOMAIN probe.input.workflows = {"simulator", "device"}
    /\ probe.input.workflows["simulator"].tools = <<"build_sim", "doctor">>
    /\ probe.input.workflows["device"].tools = <<"doctor", "list_devices">>
    /\ probe.result.totalTools = 3
    /\ probe.result.workflowCount = 2
    /\ probe.result.toolsByWorkflow["device"] = 2

(***************************************************************************)
(* C28: result shape of checkBinaryAvailability.  A result with            *)
(* available false carries no version; a result with available true        *)
(* carries a non-empty version text that is the trimmed output of the      *)
(* version command or 'Available (version info not available)'; for a      *)
(* binary other than axe, xcodemake and mise exactly one command,          *)
(* 'which <binary>', is issued and no version command is run.              *)
(***************************************************************************)
VersionCommandOutputs ==
    {probe.outcomes[i].output : i \in {j \in 1..Len(probe.outcomes) :
        /\ Succeeded(probe.outcomes[j])
        /\ probe.commands[j][Len(probe.commands[j])] = "--version"}}

VersionIsOutputOrPlaceholder ==
    \/ probe.result.version = TxtAvailableNoVersion
    \/ \E output \in VersionCommandOutputs : IsTrimOf(probe.result.version, output)

C28_ResultShape ==
    (CheckingBinary /\ ProbeReturned)
    => /\ DOMAIN probe.result = {"available", "version"}
       /\ ~probe.result.available => probe.result.version = Null
       /\ probe.result.available
          => /\ probe.result.version # Null
             /\ VersionIsOutputOrPlaceholder
             /\ probe.result.version # <<>>
       /\ probe.binary \notin {"axe", "xcodemake", "mise"}
          => probe.commands = << <<"which", probe.binary>> >>

====
